---------------------------- MODULE Spec2Model ----------------------------
(***************************************************************************)
(* A model of the file system composers of the VFS core:                   *)
(*   - the Readonly mixin           (src/src/filesystem.ts, Readonly)      *)
(*   - the Async mixin, the bridge  (src/src/filesystem.ts, Async)         *)
(*   - the Overlay                  (src/src/backends/InMemory.ts)         *)
(* The file systems the composers are applied to (StoreFS) are not part of *)
(* the sources at hand; they are modelled at the level of the FileSystem   *)
(* contract as a map from paths to nodes (the Fs* operators).              *)
(***************************************************************************)
EXTENDS Integers, Sequences, FiniteSets, TLC

(***************************************************************************)
(* Bounds of the model.                                                    *)
(***************************************************************************)
\* deepest path of the path universe ("/a/b" has depth 2)
PathDepth == 2
\* number of sync mutations the bridge's client issues
MaxOps == 2
\* the number of calls that change the overlay in a behaviour
MaxOvOps == 2
\* number of bits of a mode word handled by the bit operators
ModeBits == 16

(***************************************************************************)
(* Mode words (emulation/constants.js) and bit operations on them.         *)
(***************************************************************************)
S_IFMT == 61440
S_IFREG == 32768
S_IFDIR == 16384
S_IRWXU == 448
S_IRWXG == 56
S_IRWXO == 7

RECURSIVE BitAndN(_, _, _)
BitAndN(a, b, n) ==
    IF n = 0 THEN 0
    ELSE (IF a % 2 = 1 /\ b % 2 = 1 THEN 1 ELSE 0) + 2 * BitAndN(a \div 2, b \div 2, n - 1)

RECURSIVE BitOrN(_, _, _)
BitOrN(a, b, n) ==
    IF n = 0 THEN 0
    ELSE (IF a % 2 = 1 \/ b % 2 = 1 THEN 1 ELSE 0) + 2 * BitOrN(a \div 2, b \div 2, n - 1)

BitAnd(a, b) == BitAndN(a, b, ModeBits)
BitOr(a, b) == BitOrN(a, b, ModeBits)

\* Stats.isDirectory / Stats.isFile
isDirectory(mode) == BitAnd(mode, S_IFMT) = S_IFDIR
isFile(mode) == BitAnd(mode, S_IFMT) = S_IFREG

(***************************************************************************)
(* Paths.  A path is the sequence of its tokens, "/a/b" being              *)
(* <<"/", "a", "/", "b">>, so that string concatenation is concatenation.  *)
(***************************************************************************)
Names == {"a", "b"}
NameSeq == <<"a", "b">>
Root == <<"/">>
\* InMemory.ts, 84: the file of the writable layer that holds the deletion log
deletionLogPath == <<"/", ".deleted">>
\* the names a directory listing can hold, in listing order
EntryNames == Names \cup {".deleted"}
EntrySeq == NameSeq \o <<".deleted">>

RECURSIVE PathsUpTo(_)
PathsUpTo(d) ==
    IF d = 0 THEN {Root}
    ELSE LET shorter == PathsUpTo(d - 1)
         IN  shorter \cup {IF p = Root THEN Root \o <<n>> ELSE p \o <<"/", n>> :
                             p \in shorter, n \in Names}

Paths == PathsUpTo(PathDepth)
depth(p) == Len(p) \div 2

\* emulation/path.js
dirname(p) == IF Len(p) <= 2 THEN Root ELSE SubSeq(p, 1, Len(p) - 2)
basename(p) == IF p = Root THEN "" ELSE p[Len(p)]
join(dir, name) == IF dir = Root THEN Root \o <<name>> ELSE dir \o <<"/", name>>
IsPrefixPath(a, b) == Len(a) <= Len(b) /\ SubSeq(b, 1, Len(a)) = a
Under(dir, p) == p # dir /\ (IF dir = Root THEN TRUE ELSE IsPrefixPath(dir \o <<"/">>, p))

(***************************************************************************)
(* A file system of the FileSystem contract: a node per path, a node being *)
(* its mode word and its bytes; mode 0 stands for "no such entry".         *)
(***************************************************************************)
NoNode == [mode |-> 0, data |-> <<>>]
Dir(perm) == [mode |-> BitOr(perm, S_IFDIR), data |-> <<>>]
File(perm, bytes) == [mode |-> BitOr(perm, S_IFREG), data |-> bytes]

FsExists(fs, p) == p \in DOMAIN fs /\ fs[p].mode # 0
FsIsDir(fs, p) == FsExists(fs, p) /\ isDirectory(fs[p].mode)
Children(fs, p) == {n \in EntryNames : FsExists(fs, join(p, n))}

Ok(fs) == [err |-> "OK", fs |-> fs]
Fail(code, fs) == [err |-> code, fs |-> fs]

\* the error, if any, of looking up the directory that is to hold p
ParentErr(fs, p) ==
    IF ~FsExists(fs, dirname(p)) THEN "ENOENT"
    ELSE IF ~FsIsDir(fs, dirname(p)) THEN "ENOTDIR"
    ELSE "OK"

FsStat(fs, p) ==
    IF FsExists(fs, p)
    THEN [err |-> "OK", mode |-> fs[p].mode, size |-> Len(fs[p].data)]
    ELSE [err |-> "ENOENT", mode |-> 0, size |-> 0]

RECURSIVE ListNames(_, _, _)
ListNames(fs, p, i) ==
    IF i > Len(EntrySeq) THEN <<>>
    ELSE (IF FsExists(fs, join(p, EntrySeq[i])) THEN <<EntrySeq[i]>> ELSE <<>>)
         \o ListNames(fs, p, i + 1)

FsReaddir(fs, p) ==
    IF ~FsExists(fs, p) THEN [err |-> "ENOENT", names |-> <<>>]
    ELSE IF ~FsIsDir(fs, p) THEN [err |-> "ENOTDIR", names |-> <<>>]
    ELSE [err |-> "OK", names |-> ListNames(fs, p, 1)]

FsOpenFile(fs, p) ==
    IF ~FsExists(fs, p) THEN [err |-> "ENOENT", mode |-> 0, data |-> <<>>]
    ELSE [err |-> "OK", mode |-> fs[p].mode, data |-> fs[p].data]

FsMkdir(fs, p, mode) ==
    IF FsExists(fs, p) THEN Fail("EEXIST", fs)
    ELSE IF ParentErr(fs, p) # "OK" THEN Fail(ParentErr(fs, p), fs)
    ELSE IF p \notin DOMAIN fs THEN Fail("ENAMETOOLONG", fs)
    ELSE Ok([fs EXCEPT ![p] = [mode |-> BitOr(mode, S_IFDIR), data |-> <<>>]])

FsCreateFile(fs, p, mode) ==
    IF FsExists(fs, p) THEN Fail("EEXIST", fs)
    ELSE IF ParentErr(fs, p) # "OK" THEN Fail(ParentErr(fs, p), fs)
    ELSE IF p \notin DOMAIN fs THEN Fail("ENAMETOOLONG", fs)
    ELSE Ok([fs EXCEPT ![p] = [mode |-> BitOr(mode, S_IFREG), data |-> <<>>]])

FsUnlink(fs, p) ==
    IF ~FsExists(fs, p) \/ p = Root THEN Fail("ENOENT", fs)
    ELSE IF FsIsDir(fs, p) THEN Fail("EISDIR", fs)
    ELSE Ok([fs EXCEPT ![p] = NoNode])

FsRmdir(fs, p) ==
    IF ~FsExists(fs, p) THEN Fail("ENOENT", fs)
    ELSE IF ~FsIsDir(fs, p) THEN Fail("ENOTDIR", fs)
    ELSE IF Children(fs, p) # {} THEN Fail("ENOTEMPTY", fs)
    ELSE IF p = Root THEN Fail("ENOENT", fs)
    ELSE Ok([fs EXCEPT ![p] = NoNode])

\* the path that q, an entry at or under old, has once old is renamed to new
Moved(q, old, new) == new \o SubSeq(q, Len(old) + 1, Len(q))

FsRename(fs, old, new) ==
    IF ~FsExists(fs, old) \/ old = Root THEN Fail("ENOENT", fs)
    ELSE IF new = old THEN Ok(fs)
    ELSE IF Under(old, new) THEN Fail("EBUSY", fs)
    ELSE IF ParentErr(fs, new) # "OK" THEN Fail(ParentErr(fs, new), fs)
    ELSE IF FsExists(fs, new) /\ FsIsDir(fs, new) /\ ~FsIsDir(fs, old) THEN Fail("EISDIR", fs)
    ELSE IF FsExists(fs, new) /\ ~FsIsDir(fs, new) /\ FsIsDir(fs, old) THEN Fail("ENOTDIR", fs)
    ELSE IF FsExists(fs, new) /\ Children(fs, new) # {} THEN Fail("ENOTEMPTY", fs)
    ELSE IF \E q \in DOMAIN fs : (q = old \/ Under(old, q)) /\ FsExists(fs, q)
                                 /\ Moved(q, old, new) \notin DOMAIN fs
         THEN Fail("ENAMETOOLONG", fs)
    ELSE Ok([q \in DOMAIN fs |->
               IF q = new \/ Under(new, q)
               THEN LET src == Moved(q, new, old)
                    IN  IF src \in DOMAIN fs THEN fs[src] ELSE NoNode
               ELSE IF q = old \/ Under(old, q) THEN NoNode
               ELSE fs[q]])

FsLink(fs, src, dst) ==
    IF ~FsExists(fs, src) THEN Fail("ENOENT", fs)
    ELSE IF FsIsDir(fs, src) THEN Fail("EPERM", fs)
    ELSE IF FsExists(fs, dst) THEN Fail("EEXIST", fs)
    ELSE IF ParentErr(fs, dst) # "OK" THEN Fail(ParentErr(fs, dst), fs)
    ELSE IF dst \notin DOMAIN fs THEN Fail("ENAMETOOLONG", fs)
    ELSE Ok([fs EXCEPT ![dst] = fs[src]])

\* sync(path, data, stats): store the bytes and the mode of an open file
FsSync(fs, p, data, mode) ==
    IF ~FsExists(fs, p) THEN Fail("ENOENT", fs)
    ELSE Ok([fs EXCEPT ![p] = [mode |-> mode, data |-> data]])

\* a file system holding the root directory alone (StoreFS after ready())
EmptyFs(rootPerm) == [p \in Paths |-> IF p = Root THEN Dir(rootPerm) ELSE NoNode]


\* the well-formed trees over the path universe: every entry has a directory above it
NodeSamples == {NoNode, Dir(493), File(420, <<1>>)}
Trees ==
    {fs \in [Paths -> NodeSamples] :
        /\ FsIsDir(fs, Root)
        /\ \A p \in Paths \ {Root} : FsExists(fs, p) => FsIsDir(fs, dirname(p))}

(***************************************************************************)
(* State.                                                                  *)
(***************************************************************************)
VARIABLES
    call,           \* the call of the API the latest step made, and its outcome
    roFs,           \* Readonly: the state of the file system the mixin is applied to
    roFs0,          \* Readonly: that state at construction (history)
    backend,        \* Async: the state behind the asynchronous methods
    mirror,         \* Async: the state of _sync, the synchronous cache
    hasSync,        \* Async: _sync is attached
    disableSync,    \* Async: _disableSync
    isInitialized,  \* Async: _isInitialized
    usable,         \* Async: a ready() has resolved (the file system has been handed out)
    queue_,         \* Async: _queue
    started,        \* Async: the operations invoked on the backend, in order (history)
    outcome,        \* Async: per started operation "pending", "OK" or its error
    enqueued,       \* Async: the operations given to queue(), in order (history)
    pendingErr,     \* Async: the error of a failed operation no call has met yet (history)
    copies,         \* Async: the ready() calls that overlap: where each crossCopy is
    ovW,            \* Overlay: the state of _writable
    ovR,            \* Overlay: the state of _readable
    ovInit,         \* Overlay: _isInitialized
    deletedFiles,   \* Overlay: _deletedFiles
    deleteLog,      \* Overlay: _deleteLog
    updatePending,  \* Overlay: _deleteLogUpdatePending
    updateNeeded,   \* Overlay: _deleteLogUpdateNeeded
    deleteLogError, \* Overlay: _deleteLogError, "none" when unset
    flushPc,        \* Overlay: where the running updateLog() is: "idle", "open" or "write"
    flushText,      \* Overlay: the text handed to log.write() by the running updateLog()
    unlinked,       \* Overlay: the paths of R alone that an unlink has removed (history)
    flushFailed,    \* Overlay: an updateLog() has failed to open or to write the log (history)
    unreported,     \* Overlay: the error of a failed updateLog() no call has met yet (history)
    ovOps,          \* Overlay: the number of calls that have changed the overlay (history)
    theStats,       \* Stats: the mode, uid and gid of a Stats object
    access,         \* Stats: the latest hasAccess(): its arguments and its result
    mounts,         \* Config: the mount table, per mount point a file system or 0
    credentials,    \* Config: the credential of the process (setCred)
    fsys,           \* Config: the file systems created so far, with _disableSync
    cfg,            \* Config: the running configure / configureSingle / resolveMountConfig
    rs,             \* Config: the running top-level resolveMountConfig of cfg
    events,         \* Config: what that resolveMountConfig has invoked, in order (history)
    cfCalls         \* Config: the number of calls made (history)

roVars == <<roFs, roFs0>>
asVars == <<backend, mirror, hasSync, disableSync, isInitialized, usable, queue_,
            started, outcome, enqueued, pendingErr, copies>>
ovVars == <<ovW, ovR, ovInit, deletedFiles, deleteLog, updatePending, updateNeeded,
            deleteLogError, flushPc, flushText, unlinked, flushFailed,
            unreported, ovOps>>
stVars == <<theStats, access>>
cfVars == <<mounts, credentials, fsys, cfg, rs, events, cfCalls>>
vars == <<call, roVars, asVars, ovVars, stVars, cfVars>>

\* an operation and its arguments; the fields an operation does not take are blank
Op(name, p, q, mode, data) == [name |-> name, p |-> p, q |-> q, mode |-> mode, data |-> data]
NoVal == [mode |-> 0, size |-> 0, data |-> <<>>, names |-> <<>>, flag |-> FALSE]
Call(op, err, val) == [op |-> op, err |-> err, val |-> val]
\* the value of call after a step that is no call of the API
NoCall == Call(Op("none", Root, Root, 0, <<>>), "OK", NoVal)
IsCallStep == call'.op.name # "none"
\* the client is not in a call
Idle == call = NoCall

\* the call returns to the client
Return ==
    /\ ~Idle
    /\ call.err # "AWAIT"
    /\ call' = NoCall
    /\ UNCHANGED <<roVars, stVars, cfVars, asVars, ovVars>>

\* the arguments the clients pass
FilePerms == {420}
DirPerms == {493}
Bytes == {<<7>>}

(***************************************************************************)
(* Async (filesystem.ts, 314-499): synchronous methods on an asynchronous  *)
(* file system.  The operators work on the bridge's own state,             *)
(*   sync: _sync's state, q: _queue,                                       *)
(*   started/outcome: the calls made on the asynchronous methods,          *)
(*   enq: the operations given to queue().                                 *)
(* and yield the error thrown ("OK" for none), the state left and a value. *)
(***************************************************************************)
MirrorRootPerm == 511

Bridge == [sync |-> mirror, q |-> queue_, started |-> started, outcome |-> outcome,
           enq |-> enqueued]

Ret(err, b, val) == [err |-> err, b |-> b, val |-> val]

\* get _queueRunning
AsyncFS_queueRunning(b) == Len(b.q) # 0

\* _next, up to its first await: the call of the asynchronous method is made
Mutant_AsyncFS_next(b) ==
    IF ~AsyncFS_queueRunning(b) THEN b
    ELSE [b EXCEPT !.started = Append(@, b.q[1]), !.outcome = Append(@, "pending")]

AsyncFS_next(b) ==
    IF ~AsyncFS_queueRunning(b) THEN b
    ELSE [b EXCEPT !.q = Tail(@),
                   !.started = Append(@, Head(b.q)),
                   !.outcome = Append(@, "pending")]

\* queue(...op)
Mutant_AsyncFS_queue(b, op) == [b EXCEPT !.q = Append(@, op), !.enq = Append(@, op)]

AsyncFS_queue(b, op) ==
    AsyncFS_next([b EXCEPT !.q = Append(@, op), !.enq = Append(@, op)])

\* checkSync
AsyncFS_checkSync(dis, has) ==
    IF dis THEN "ENOTSUP"
    ELSE IF ~has THEN "ENOTSUP"
    ELSE "OK"

\* FileSystem.exists / existsSync (filesystem.ts, 189-208) from the outcome of stat
Mutant_FileSystem_exists(statErr) == statErr = "OK"

FileSystem_exists(statErr) == IF statErr = "OK" THEN TRUE ELSE statErr # "ENOENT"

AsyncFS_openFileSync(b, dis, has, path) ==
    IF AsyncFS_checkSync(dis, has) # "OK" THEN Ret(AsyncFS_checkSync(dis, has), b, NoVal)
    ELSE LET file == FsOpenFile(b.sync, path)
         IN  IF file.err # "OK" THEN Ret(file.err, b, NoVal)
             ELSE Ret("OK", b, [NoVal EXCEPT !.mode = file.mode, !.size = Len(file.data),
                                             !.data = file.data])

AsyncFS_renameSync(b, dis, has, oldPath, newPath) ==
    IF AsyncFS_checkSync(dis, has) # "OK" THEN Ret(AsyncFS_checkSync(dis, has), b, NoVal)
    ELSE LET r == FsRename(b.sync, oldPath, newPath)
         IN  IF r.err # "OK" THEN Ret(r.err, b, NoVal)
             ELSE Ret("OK", AsyncFS_queue([b EXCEPT !.sync = r.fs],
                                          Op("rename", oldPath, newPath, 0, <<>>)), NoVal)

Mutant_AsyncFS_statSync(b, dis, has, path, remote) ==
    IF AsyncFS_checkSync(dis, has) # "OK" THEN Ret(AsyncFS_checkSync(dis, has), b, NoVal)
    ELSE LET r == FsStat(remote, path)
         IN  Ret(r.err, b, [NoVal EXCEPT !.mode = r.mode, !.size = r.size])

\* remote, the state behind the asynchronous methods, is at hand and not used
AsyncFS_statSync(b, dis, has, path, remote) ==
    IF AsyncFS_checkSync(dis, has) # "OK" THEN Ret(AsyncFS_checkSync(dis, has), b, NoVal)
    ELSE LET r == FsStat(b.sync, path)
         IN  Ret(r.err, b, [NoVal EXCEPT !.mode = r.mode, !.size = r.size])

AsyncFS_createFileSync(b, dis, has, path, mode) ==
    IF AsyncFS_checkSync(dis, has) # "OK" THEN Ret(AsyncFS_checkSync(dis, has), b, NoVal)
    ELSE LET r == FsCreateFile(b.sync, path, mode)
         IN  IF r.err # "OK" THEN Ret(r.err, b, NoVal)
             ELSE AsyncFS_openFileSync(
                      AsyncFS_queue([b EXCEPT !.sync = r.fs],
                                    Op("createFile", path, Root, mode, <<>>)),
                      dis, has, path)

Mutant_AsyncFS_unlinkSync(b, dis, has, path) ==
    IF AsyncFS_checkSync(dis, has) # "OK" THEN Ret(AsyncFS_checkSync(dis, has), b, NoVal)
    ELSE LET r == FsUnlink(b.sync, path)
         IN  Ret(r.err, AsyncFS_queue([b EXCEPT !.sync = r.fs],
                                      Op("unlink", path, Root, 0, <<>>)), NoVal)

AsyncFS_unlinkSync(b, dis, has, path) ==
    IF AsyncFS_checkSync(dis, has) # "OK" THEN Ret(AsyncFS_checkSync(dis, has), b, NoVal)
    ELSE LET r == FsUnlink(b.sync, path)
         IN  IF r.err # "OK" THEN Ret(r.err, b, NoVal)
             ELSE Ret("OK", AsyncFS_queue([b EXCEPT !.sync = r.fs],
                                          Op("unlink", path, Root, 0, <<>>)), NoVal)

AsyncFS_rmdirSync(b, dis, has, path) ==
    IF AsyncFS_checkSync(dis, has) # "OK" THEN Ret(AsyncFS_checkSync(dis, has), b, NoVal)
    ELSE LET r == FsRmdir(b.sync, path)
         IN  IF r.err # "OK" THEN Ret(r.err, b, NoVal)
             ELSE Ret("OK", AsyncFS_queue([b EXCEPT !.sync = r.fs],
                                          Op("rmdir", path, Root, 0, <<>>)), NoVal)

Mutant_AsyncFS_mkdirSync(b, dis, has, path, mode) ==
    LET r == FsMkdir(b.sync, path, mode)
    IN  IF r.err # "OK" THEN Ret(r.err, b, NoVal)
        ELSE Ret("OK", AsyncFS_queue([b EXCEPT !.sync = r.fs],
                                     Op("mkdir", path, Root, mode, <<>>)), NoVal)

AsyncFS_mkdirSync(b, dis, has, path, mode) ==
    IF AsyncFS_checkSync(dis, has) # "OK" THEN Ret(AsyncFS_checkSync(dis, has), b, NoVal)
    ELSE LET r == FsMkdir(b.sync, path, mode)
         IN  IF r.err # "OK" THEN Ret(r.err, b, NoVal)
             ELSE Ret("OK", AsyncFS_queue([b EXCEPT !.sync = r.fs],
                                          Op("mkdir", path, Root, mode, <<>>)), NoVal)

AsyncFS_readdirSync(b, dis, has, path) ==
    IF AsyncFS_checkSync(dis, has) # "OK" THEN Ret(AsyncFS_checkSync(dis, has), b, NoVal)
    ELSE LET r == FsReaddir(b.sync, path)
         IN  Ret(r.err, b, [NoVal EXCEPT !.names = r.names])

AsyncFS_linkSync(b, dis, has, srcpath, dstpath) ==
    IF AsyncFS_checkSync(dis, has) # "OK" THEN Ret(AsyncFS_checkSync(dis, has), b, NoVal)
    ELSE LET r == FsLink(b.sync, srcpath, dstpath)
         IN  IF r.err # "OK" THEN Ret(r.err, b, NoVal)
             ELSE Ret("OK", AsyncFS_queue([b EXCEPT !.sync = r.fs],
                                          Op("link", srcpath, dstpath, 0, <<>>)), NoVal)

AsyncFS_syncSync(b, dis, has, path, data, stats) ==
    IF AsyncFS_checkSync(dis, has) # "OK" THEN Ret(AsyncFS_checkSync(dis, has), b, NoVal)
    ELSE LET r == FsSync(b.sync, path, data, stats)
         IN  IF r.err # "OK" THEN Ret(r.err, b, NoVal)
             ELSE Ret("OK", AsyncFS_queue([b EXCEPT !.sync = r.fs],
                                          Op("sync", path, Root, stats, data)), NoVal)

AsyncFS_existsSync(b, dis, has, path) ==
    IF AsyncFS_checkSync(dis, has) # "OK" THEN Ret(AsyncFS_checkSync(dis, has), b, NoVal)
    ELSE Ret("OK", b, [NoVal EXCEPT !.flag = FileSystem_exists(FsStat(b.sync, path).err)])

\* the asynchronous method an operation of the queue calls, on the state behind it
BackendApply(fs, op) ==
    CASE op.name = "rename" -> FsRename(fs, op.p, op.q)
      [] op.name = "createFile" -> FsCreateFile(fs, op.p, op.mode)
      [] op.name = "unlink" -> FsUnlink(fs, op.p)
      [] op.name = "rmdir" -> FsRmdir(fs, op.p)
      [] op.name = "mkdir" -> FsMkdir(fs, op.p, op.mode)
      [] op.name = "link" -> FsLink(fs, op.p, op.q)
      [] op.name = "sync" -> FsSync(fs, op.p, op.data, op.mode)
      [] OTHER -> Fail("ENOTSUP", fs)

\* crossCopy visits the entries in the order of a depth-first walk from '/'
RECURSIVE Walk(_, _)
RECURSIVE WalkAll(_, _, _)
Walk(fs, path) ==
    <<path>> \o (IF FsIsDir(fs, path) THEN WalkAll(fs, path, FsReaddir(fs, path).names)
                 ELSE <<>>)
WalkAll(fs, path, files) ==
    IF files = <<>> THEN <<>>
    ELSE Walk(fs, join(path, Head(files))) \o WalkAll(fs, path, Tail(files))

\* crossCopy's own work at one path: a directory is made, a file made and written
Mutant_AsyncFS_crossCopyOne(remote, sync, path) ==
    IF isDirectory(remote[path].mode)
    THEN IF path # Root THEN FsMkdir(sync, path, remote[path].mode) ELSE Ok(sync)
    ELSE FsCreateFile(sync, path, remote[path].mode)

AsyncFS_crossCopyOne(remote, sync, path) ==
    IF isDirectory(remote[path].mode)
    THEN IF path # Root THEN FsMkdir(sync, path, remote[path].mode) ELSE Ok(sync)
    ELSE LET c == FsCreateFile(sync, path, remote[path].mode)
         IN  IF c.err # "OK" THEN c
             ELSE FsSync(c.fs, path, remote[path].data, c.fs[path].mode)

\* crossCopy('/'): the walk, ended by the first error; the asynchronous calls at
\* the failAt-th entry fail with EIO (failAt = 0: none fails)
RECURSIVE CrossCopyFrom(_, _, _, _, _)
CrossCopyFrom(remote, sync, order, i, failAt) ==
    IF i > Len(order) THEN Ok(sync)
    ELSE IF i = failAt THEN Fail("EIO", sync)
    ELSE LET r == AsyncFS_crossCopyOne(remote, sync, order[i])
         IN  IF r.err # "OK" THEN r
             ELSE CrossCopyFrom(remote, r.fs, order, i + 1, failAt)

AsyncFS_crossCopy(remote, sync, failAt) ==
    CrossCopyFrom(remote, sync, Walk(remote, Root), 1, failAt)

\* the paths the bridge's client names
AsPaths == {Root, join(Root, "a"), join(Root, "b"), join(join(Root, "a"), "b")}

SyncReads == {"statSync", "readdirSync", "openFileSync", "existsSync"}
SyncMutators == {"renameSync", "createFileSync", "unlinkSync", "rmdirSync", "mkdirSync",
                 "linkSync", "syncSync"}
SyncMethods == SyncReads \cup SyncMutators

\* the history of the error that no call has met yet: the first failure stays
Latch(err) == IF pendingErr = "none" THEN err ELSE pendingErr

\* a synchronous method has run: op is the call, r what the method yields
AsDone(op, r) ==
    /\ call' = Call(op, r.err, r.val)
    /\ mirror' = r.b.sync
    /\ queue_' = r.b.q
    /\ started' = r.b.started
    /\ outcome' = r.b.outcome
    /\ enqueued' = r.b.enq
    /\ pendingErr' = "none"
    /\ UNCHANGED <<backend, hasSync, disableSync, isInitialized, usable, copies, roVars,
                   stVars, cfVars, ovVars>>

MayMutate == Idle /\ usable /\ Len(enqueued) < MaxOps
MayRead == Idle /\ usable

RenameSync ==
    /\ MayMutate
    /\ \E old \in AsPaths, new \in AsPaths :
        AsDone(Op("renameSync", old, new, 0, <<>>),
               AsyncFS_renameSync(Bridge, disableSync, hasSync, old, new))

StatSync ==
    /\ MayRead
    /\ \E p \in AsPaths :
        AsDone(Op("statSync", p, Root, 0, <<>>),
               AsyncFS_statSync(Bridge, disableSync, hasSync, p, backend))

CreateFileSync ==
    /\ MayMutate
    /\ \E p \in AsPaths, m \in FilePerms :
        AsDone(Op("createFileSync", p, Root, m, <<>>),
               AsyncFS_createFileSync(Bridge, disableSync, hasSync, p, m))

OpenFileSync ==
    /\ MayRead
    /\ \E p \in AsPaths :
        AsDone(Op("openFileSync", p, Root, 0, <<>>),
               AsyncFS_openFileSync(Bridge, disableSync, hasSync, p))

UnlinkSync ==
    /\ MayMutate
    /\ \E p \in AsPaths :
        AsDone(Op("unlinkSync", p, Root, 0, <<>>),
               AsyncFS_unlinkSync(Bridge, disableSync, hasSync, p))

RmdirSync ==
    /\ MayMutate
    /\ \E p \in AsPaths :
        AsDone(Op("rmdirSync", p, Root, 0, <<>>),
               AsyncFS_rmdirSync(Bridge, disableSync, hasSync, p))

MkdirSync ==
    /\ MayMutate
    /\ \E p \in AsPaths, m \in DirPerms :
        AsDone(Op("mkdirSync", p, Root, m, <<>>),
               AsyncFS_mkdirSync(Bridge, disableSync, hasSync, p, m))

ReaddirSync ==
    /\ MayRead
    /\ \E p \in AsPaths :
        AsDone(Op("readdirSync", p, Root, 0, <<>>),
               AsyncFS_readdirSync(Bridge, disableSync, hasSync, p))

LinkSync ==
    /\ MayMutate
    /\ \E src \in AsPaths, dst \in AsPaths :
        AsDone(Op("linkSync", src, dst, 0, <<>>),
               AsyncFS_linkSync(Bridge, disableSync, hasSync, src, dst))

SyncSync ==
    /\ MayMutate
    /\ \E p \in AsPaths, d \in Bytes, m \in FilePerms :
        AsDone(Op("syncSync", p, Root, BitOr(m, S_IFREG), d),
               AsyncFS_syncSync(Bridge, disableSync, hasSync, p, d, BitOr(m, S_IFREG)))

ExistsSync ==
    /\ MayRead
    /\ \E p \in AsPaths :
        AsDone(Op("existsSync", p, Root, 0, <<>>),
               AsyncFS_existsSync(Bridge, disableSync, hasSync, p))

\* ready(); val.flag tells that this call ran crossCopy
Ready ==
    \E failAt \in 0..Cardinality(Paths) :
        Idle /\
        LET skip == isInitialized \/ disableSync
            chk == AsyncFS_checkSync(disableSync, hasSync)
            r == AsyncFS_crossCopy(backend, mirror, failAt)
            err == IF skip THEN "OK" ELSE IF chk # "OK" THEN chk ELSE r.err
            ran == ~skip /\ chk = "OK"
        IN  /\ failAt <= Len(Walk(backend, Root))
            /\ call' = Call(Op("ready", Root, Root, 0, <<>>), err,
                            [NoVal EXCEPT !.flag = ran])
            /\ mirror' = IF ran THEN r.fs ELSE mirror
            /\ isInitialized' = IF ran THEN r.err = "OK" ELSE isInitialized
            /\ usable' = (usable \/ err = "OK")
            /\ pendingErr' = "none"
            /\ UNCHANGED <<backend, hasSync, disableSync, queue_, started, outcome,
                           enqueued, copies, roVars, stVars, cfVars, ovVars>>

\* queueDone(): one run of check(), at the call or from the timer it set;
\* "PENDING" stands for the promise left unresolved and the timer set again
QueueDone ==
    /\ Idle
    /\ call' = Call(Op("queueDone", Root, Root, 0, <<>>),
                    IF AsyncFS_queueRunning(Bridge) THEN "PENDING" ELSE "OK", NoVal)
    /\ UNCHANGED <<asVars, roVars, stVars, cfVars, ovVars>>

\* the asynchronous method called for started[i] ends: it fails (by itself, or
\* with EIO when the transport fails) and _next rejects with nobody to see it, or
\* it succeeds and _next goes on with its own call of _next
Settle ==
    \E i \in DOMAIN started, transportFails \in BOOLEAN :
        /\ Idle
        /\ outcome[i] = "pending"
        /\ LET r == IF transportFails THEN Fail("EIO", backend)
                    ELSE BackendApply(backend, started[i])
               b == [Bridge EXCEPT !.outcome[i] = r.err]
               after == IF r.err = "OK" THEN AsyncFS_next(b) ELSE b
           IN  /\ backend' = r.fs
               /\ queue_' = after.q
               /\ started' = after.started
               /\ outcome' = after.outcome
               /\ pendingErr' = IF r.err = "OK" THEN pendingErr ELSE Latch(r.err)
               /\ UNCHANGED <<call, mirror, hasSync, disableSync, isInitialized, usable,
                              enqueued, copies, roVars, stVars, cfVars, ovVars>>

\* the states behind the asynchronous methods a bridge is built over
BackendSamples ==
    {EmptyFs(511),
     EmptyFs(493),
     [EmptyFs(511) EXCEPT ![join(Root, "a")] = Dir(448),
                          ![join(join(Root, "a"), "b")] = File(384, <<1, 2>>),
                          ![join(Root, "b")] = File(420, <<>>)]}

\* the overlay of a model that builds none
OvIdle ==
    /\ ovW = EmptyFs(MirrorRootPerm) /\ ovR = EmptyFs(MirrorRootPerm)
    /\ ovInit = FALSE /\ deletedFiles = {} /\ deleteLog = <<>>
    /\ updatePending = FALSE /\ updateNeeded = FALSE /\ deleteLogError = "none"
    /\ flushPc = "idle" /\ flushText = <<>>
    /\ unlinked = {} /\ flushFailed = FALSE /\ unreported = "none" /\ ovOps = 0

\* the Stats object of a model that asks for no access
NoAccess == [requested |-> 0, cred |-> [uid |-> 0, gid |-> 0, euid |-> 0, egid |-> 0],
             asked |-> FALSE, result |-> FALSE]
StIdle == theStats = [mode |-> S_IFREG, uid |-> 0, gid |-> 0] /\ access = NoAccess

\* the mount points of the model
MountPoints == {"/", "/tmp"}
\* a uid or gid that the configuration does not hold
Unset == -1
\* the credential of root
RootCred == [uid |-> 0, gid |-> 0, suid |-> 0, sgid |-> 0, euid |-> 0, egid |-> 0]
\* no call of the configuration functions is running
NoCfg == [op |-> "none", pc |-> "idle", uid |-> Unset, gid |-> Unset, dac |-> "unset",
          entries |-> <<>>, i |-> 0, resolved |-> <<>>, err |-> "none", failedAt |-> "none",
          mounts0 |-> [mp \in MountPoints |-> 0]]
\* no resolveMountConfig is running
NoRs == [pc |-> "idle", backend |-> "none", dac |-> "unset", options |-> <<>>, fs |-> 0,
         err |-> "none", made |-> 0]
\* the default file system, InMemory, mounted on '/' when the module loads
DefaultFs == [backend |-> "InMemory", disableSync |-> FALSE, ready |-> TRUE]
CfIdle ==
    /\ mounts = [mp \in MountPoints |-> IF mp = "/" THEN 1 ELSE 0]
    /\ credentials = RootCred /\ fsys = <<DefaultFs>>
    /\ cfg = NoCfg /\ rs = NoRs /\ events = <<>> /\ cfCalls = 0

\* the read-only file system of a model that builds none
RoIdle == roFs = EmptyFs(MirrorRootPerm) /\ roFs0 = roFs

InitAsync ==
    /\ call = NoCall
    /\ RoIdle
    /\ OvIdle
    /\ StIdle
    /\ CfIdle
    /\ backend \in BackendSamples
    /\ mirror = EmptyFs(MirrorRootPerm)
    /\ hasSync \in BOOLEAN
    /\ disableSync \in BOOLEAN
    /\ isInitialized = FALSE
    /\ usable = FALSE
    /\ queue_ = <<>> /\ started = <<>> /\ outcome = <<>> /\ enqueued = <<>>
    /\ pendingErr = "none"
    /\ copies = <<>>

NextAsync ==
    \/ Return
    \/ Ready
    \/ QueueDone
    \/ RenameSync
    \/ StatSync
    \/ CreateFileSync
    \/ OpenFileSync
    \/ UnlinkSync
    \/ RmdirSync
    \/ MkdirSync
    \/ ReaddirSync
    \/ LinkSync
    \/ SyncSync
    \/ ExistsSync
    \/ Settle

SpecAsync == InitAsync /\ [][NextAsync]_vars

\* the bridge under the scheduling the event loop gives: a call of an asynchronous
\* method that was made ends (the client goes back to the event loop again and
\* again, and the promise settles there), and a synchronous call returns
SpecAsyncLive == SpecAsync /\ SF_vars(Settle) /\ WF_vars(Return)

(***************************************************************************)
(* ready() in its own steps (filesystem.ts, 357-373 and 454-473): ready()  *)
(* is asynchronous, and crossCopy awaits the backend before each entry, so *)
(* that a second ready() can be called while the crossCopy of a first one  *)
(* is under way.  copies holds one record per call of ready().             *)
(***************************************************************************)
\* the number of ready() calls made
MaxReady == 2

\* a ready() call: whether it ran crossCopy, the entries crossCopy visits and the
\* next one, and how the call stands
ReadyCall(ran, order, state, err) ==
    [ran |-> ran, i |-> 1, order |-> order, state |-> state, err |-> err]

\* ready() up to the call of crossCopy
ReadyBegin ==
    /\ Len(copies) < MaxReady
    /\ LET skip == isInitialized \/ disableSync
           chk == AsyncFS_checkSync(disableSync, hasSync)
       IN  /\ copies' = Append(copies,
                   IF skip THEN ReadyCall(FALSE, <<>>, "resolved", "OK")
                   ELSE IF chk # "OK" THEN ReadyCall(FALSE, <<>>, "rejected", chk)
                   ELSE ReadyCall(TRUE, Walk(backend, Root), "copying", "OK"))
           /\ usable' = (usable \/ skip)
    /\ UNCHANGED <<call, backend, mirror, hasSync, disableSync, isInitialized, queue_,
                   started, outcome, enqueued, pendingErr, roVars, stVars, cfVars, ovVars>>

\* crossCopy of one ready() call goes on by one entry: the asynchronous calls on
\* the backend fail (EIO) or the entry is made in the mirror; an error ends
\* crossCopy and ready() catches it, sets _isInitialized = false and rejects
CrossCopyStep ==
    \E k \in DOMAIN copies, transportFails \in BOOLEAN :
        /\ copies[k].state = "copying"
        /\ copies[k].i <= Len(copies[k].order)
        /\ LET c == copies[k]
               r == IF transportFails THEN Fail("EIO", mirror)
                    ELSE AsyncFS_crossCopyOne(backend, mirror, c.order[c.i])
           IN  /\ mirror' = r.fs
               /\ IF r.err = "OK"
                  THEN /\ copies' = [copies EXCEPT ![k].i = @ + 1]
                       /\ UNCHANGED isInitialized
                  ELSE /\ copies' = [copies EXCEPT ![k].state = "rejected", ![k].err = r.err]
                       /\ isInitialized' = FALSE
        /\ UNCHANGED <<call, backend, hasSync, disableSync, usable, queue_, started,
                       outcome, enqueued, pendingErr, roVars, stVars, cfVars, ovVars>>

\* crossCopy has returned: ready() sets _isInitialized = true and resolves
ReadyEnd ==
    \E k \in DOMAIN copies :
        /\ copies[k].state = "copying"
        /\ copies[k].i > Len(copies[k].order)
        /\ copies' = [copies EXCEPT ![k].state = "resolved"]
        /\ isInitialized' = TRUE
        /\ usable' = TRUE
        /\ UNCHANGED <<call, backend, mirror, hasSync, disableSync, queue_, started,
                       outcome, enqueued, pendingErr, roVars, stVars, cfVars, ovVars>>

NextReady ==
    \/ ReadyBegin
    \/ CrossCopyStep
    \/ ReadyEnd

SpecReady == InitAsync /\ [][NextReady]_vars

\* the bridge of a Readonly model: never built
AsIdle ==
    /\ backend = EmptyFs(MirrorRootPerm) /\ mirror = EmptyFs(MirrorRootPerm)
    /\ hasSync = FALSE /\ disableSync = FALSE /\ isInitialized = FALSE /\ usable = FALSE
    /\ queue_ = <<>> /\ started = <<>> /\ outcome = <<>> /\ enqueued = <<>>
    /\ pendingErr = "none"
    /\ copies = <<>>


(***************************************************************************)
(* Readonly (filesystem.ts, 504-589): the mixin overrides the mutating     *)
(* methods; each yields the error and the state it leaves behind.          *)
(***************************************************************************)
ReadonlyFS_rename(fs, oldPath, newPath) == Fail("EROFS", fs)
ReadonlyFS_renameSync(fs, oldPath, newPath) == Fail("EROFS", fs)
ReadonlyFS_createFile(fs, path, mode) == Fail("EROFS", fs)
ReadonlyFS_createFileSync(fs, path, mode) == Fail("EROFS", fs)
ReadonlyFS_unlink(fs, path) == Fail("EROFS", fs)
Mutant_ReadonlyFS_unlinkSync(fs, path) == FsUnlink(fs, path)
ReadonlyFS_unlinkSync(fs, path) == Fail("EROFS", fs)
ReadonlyFS_rmdir(fs, path) == Fail("EROFS", fs)
ReadonlyFS_rmdirSync(fs, path) == Fail("EROFS", fs)
ReadonlyFS_mkdir(fs, path, mode) == Fail("EROFS", fs)
ReadonlyFS_mkdirSync(fs, path, mode) == Fail("EROFS", fs)
ReadonlyFS_link(fs, srcpath, dstpath) == Fail("EROFS", fs)
ReadonlyFS_linkSync(fs, srcpath, dstpath) == Fail("EROFS", fs)
ReadonlyFS_sync(fs, path, data, stats) == Fail("EROFS", fs)
ReadonlyFS_syncSync(fs, path, data, stats) == Fail("EROFS", fs)
ReadonlyFS_metadata == [readonly |-> TRUE]

ReadonlyMutators ==
    {"rename", "renameSync", "createFile", "createFileSync", "unlink", "unlinkSync",
     "rmdir", "rmdirSync", "mkdir", "mkdirSync", "link", "linkSync", "sync", "syncSync"}

RoDone(op, r) ==
    /\ Idle
    /\ call' = Call(op, r.err, NoVal)
    /\ roFs' = r.fs
    /\ UNCHANGED <<roFs0, asVars, ovVars, stVars, cfVars>>

RoRename ==
    \E old \in Paths, new \in Paths, s \in BOOLEAN :
        IF s THEN RoDone(Op("renameSync", old, new, 0, <<>>), ReadonlyFS_renameSync(roFs, old, new))
        ELSE RoDone(Op("rename", old, new, 0, <<>>), ReadonlyFS_rename(roFs, old, new))

RoCreateFile ==
    \E p \in Paths, m \in FilePerms, s \in BOOLEAN :
        IF s THEN RoDone(Op("createFileSync", p, Root, m, <<>>), ReadonlyFS_createFileSync(roFs, p, m))
        ELSE RoDone(Op("createFile", p, Root, m, <<>>), ReadonlyFS_createFile(roFs, p, m))

RoUnlink ==
    \E p \in Paths, s \in BOOLEAN :
        IF s THEN RoDone(Op("unlinkSync", p, Root, 0, <<>>), ReadonlyFS_unlinkSync(roFs, p))
        ELSE RoDone(Op("unlink", p, Root, 0, <<>>), ReadonlyFS_unlink(roFs, p))

RoRmdir ==
    \E p \in Paths, s \in BOOLEAN :
        IF s THEN RoDone(Op("rmdirSync", p, Root, 0, <<>>), ReadonlyFS_rmdirSync(roFs, p))
        ELSE RoDone(Op("rmdir", p, Root, 0, <<>>), ReadonlyFS_rmdir(roFs, p))

RoMkdir ==
    \E p \in Paths, m \in DirPerms, s \in BOOLEAN :
        IF s THEN RoDone(Op("mkdirSync", p, Root, m, <<>>), ReadonlyFS_mkdirSync(roFs, p, m))
        ELSE RoDone(Op("mkdir", p, Root, m, <<>>), ReadonlyFS_mkdir(roFs, p, m))

RoLink ==
    \E src \in Paths, dst \in Paths, s \in BOOLEAN :
        IF s THEN RoDone(Op("linkSync", src, dst, 0, <<>>), ReadonlyFS_linkSync(roFs, src, dst))
        ELSE RoDone(Op("link", src, dst, 0, <<>>), ReadonlyFS_link(roFs, src, dst))

RoSync ==
    \E p \in Paths, d \in Bytes, m \in FilePerms, s \in BOOLEAN :
        IF s THEN RoDone(Op("syncSync", p, Root, BitOr(m, S_IFREG), d),
                         ReadonlyFS_syncSync(roFs, p, d, BitOr(m, S_IFREG)))
        ELSE RoDone(Op("sync", p, Root, BitOr(m, S_IFREG), d),
                    ReadonlyFS_sync(roFs, p, d, BitOr(m, S_IFREG)))

\* the methods the mixin leaves to the file system it is applied to
RoStat ==
    \E p \in Paths :
        LET r == FsStat(roFs, p)
        IN  /\ Idle
            /\ call' = Call(Op("stat", p, Root, 0, <<>>), r.err,
                            [NoVal EXCEPT !.mode = r.mode, !.size = r.size])
            /\ UNCHANGED <<roVars, stVars, cfVars, asVars, ovVars>>

\* the trees a read-only file system is built over in this model
RoTrees == {fs \in Trees : ~FsIsDir(fs, join(Root, "b"))}

InitReadonly ==
    /\ call = NoCall
    /\ roFs \in RoTrees
    /\ roFs0 = roFs
    /\ AsIdle
    /\ OvIdle
    /\ StIdle
    /\ CfIdle

NextReadonly ==
    \/ Return
    \/ RoRename
    \/ RoCreateFile
    \/ RoUnlink
    \/ RoRmdir
    \/ RoMkdir
    \/ RoLink
    \/ RoSync
    \/ RoStat

SpecReadonly == InitReadonly /\ [][NextReadonly]_vars

\* C1: on a file system built with the Readonly mixin every mutating operation
\* (rename, createFile, unlink, rmdir, mkdir, link, sync and their Sync variants)
\* fails with EROFS whatever its arguments, and after any sequence of such calls
\* the underlying state is the state before the calls.
C1_ReadonlyRejectsAndPreserves ==
    /\ roFs = roFs0
    /\ call.op.name \in ReadonlyMutators => call.err = "EROFS"

\* a mutating call whose arguments the underlying file system would have accepted
C1_Witness ==
    /\ call.op.name = "unlinkSync"
    /\ FsUnlink(roFs0, call.op.p).err = "OK"
    /\ call.err = "EROFS"


(***************************************************************************)
(* The bridge: properties.                                                 *)
(***************************************************************************)
IsPrefix(s, t) == Len(s) <= Len(t) /\ SubSeq(t, 1, Len(s)) = s
InFlight == {i \in DOMAIN outcome : outcome[i] = "pending"}

\* the operation a synchronous mutator hands to queue(): the asynchronous method
\* of the same name, with the arguments of the call
Queued(op) ==
    [op EXCEPT !.name =
        CASE op.name = "renameSync" -> "rename"
          [] op.name = "createFileSync" -> "createFile"
          [] op.name = "unlinkSync" -> "unlink"
          [] op.name = "rmdirSync" -> "rmdir"
          [] op.name = "mkdirSync" -> "mkdir"
          [] op.name = "linkSync" -> "link"
          [] op.name = "syncSync" -> "sync"
          [] OTHER -> op.name]

\* what a synchronous read made right after the mutation op sees in the file system fs
Observes(fs, op) ==
    CASE op.name = "rename" -> FsExists(fs, op.q) /\ (op.p # op.q => ~FsExists(fs, op.p))
      [] op.name = "createFile" -> FsExists(fs, op.p) /\ isFile(fs[op.p].mode)
      [] op.name = "unlink" -> ~FsExists(fs, op.p)
      [] op.name = "rmdir" -> ~FsExists(fs, op.p)
      [] op.name = "mkdir" -> FsIsDir(fs, op.p)
      [] op.name = "link" -> FsExists(fs, op.q) /\ fs[op.q] = fs[op.p]
      [] op.name = "sync" -> fs[op.p].data = op.data /\ fs[op.p].mode = op.mode
      [] OTHER -> FALSE

\* C2: the operations invoked on the asynchronous backend are started in exactly
\* the order in which the sync mutations were enqueued: at any time the sequence
\* of calls made on the backend is an initial part of the sequence of operations
\* given to queue(), whatever completions came in between.
C2_StartedInEnqueueOrder == IsPrefix(started, enqueued)

\* two different operations were started, a completion in between or after
C2_Witness ==
    /\ Len(started) >= 2
    /\ started[1] # started[2]
    /\ outcome[1] = "OK"

\* C3: at most one queued operation is in flight against the asynchronous backend
\* at any time (an operation is not started before the one started before it has
\* resolved).
C3_AtMostOneInFlight == Cardinality(InFlight) <= 1

\* C4: whenever the promise of queueDone() resolves (on a bridge that ready() has
\* initialized), every operation enqueued before has completed on the backend, so
\* that, all of them having succeeded, every entry below '/' is the same on the
\* backend and in the mirror.
C4_QueueDoneMeansDrained ==
    (call.op.name = "queueDone" /\ call.err = "OK" /\ isInitialized) =>
        /\ InFlight = {}
        /\ Len(started) = Len(enqueued)
        /\ (\A i \in DOMAIN outcome : outcome[i] = "OK") =>
               \A p \in Paths \ {Root} : backend[p] = mirror[p]

\* C5: a sync mutation is applied to the mirror first, so that a sync read made
\* right after it observes it, and it is enqueued exactly once, with the same
\* arguments, if and only if the mirror operation succeeded; when the mirror
\* operation throws, the call throws that error and the queue and the mirror
\* are as before.
C5_MirrorFirstThenEnqueueOnce ==
    [][(IsCallStep /\ call'.op.name \in SyncMutators) =>
          LET op == Queued(call'.op)
              onMirror == BackendApply(mirror, op)
          IN  IF call'.err = "OK"
              THEN /\ mirror' = onMirror.fs
                   /\ Observes(mirror', op)
                   /\ started' \o queue_' = (started \o queue_) \o <<op>>
              ELSE /\ mirror' = mirror
                   /\ started' = started
                   /\ queue_' = queue_
                   /\ (~disableSync /\ hasSync) => call'.err = onMirror.err]_vars

\* a mutation that the mirror took and that was handed on
C5_Witness ==
    /\ call.op.name = "mkdirSync"
    /\ call.err = "OK"
    /\ FsIsDir(mirror, call.op.p)
    /\ started # <<>>
    /\ started[Len(started)] = Queued(call.op)
    /\ ~FsExists(backend, call.op.p)

\* what the sync read op yields when it is computed from the file system fs alone
ReadFrom(fs, op) ==
    CASE op.name = "statSync" ->
            Call(op, FsStat(fs, op.p).err,
                 [NoVal EXCEPT !.mode = FsStat(fs, op.p).mode, !.size = FsStat(fs, op.p).size])
      [] op.name = "readdirSync" ->
            Call(op, FsReaddir(fs, op.p).err, [NoVal EXCEPT !.names = FsReaddir(fs, op.p).names])
      [] op.name = "openFileSync" ->
            Call(op, FsOpenFile(fs, op.p).err,
                 [NoVal EXCEPT !.mode = FsOpenFile(fs, op.p).mode,
                               !.size = Len(FsOpenFile(fs, op.p).data),
                               !.data = FsOpenFile(fs, op.p).data])
      [] op.name = "existsSync" ->
            Call(op, "OK", [NoVal EXCEPT !.flag = FsExists(fs, op.p)])
      [] OTHER -> NoCall

\* C6: statSync, readdirSync, openFileSync and existsSync compute their result
\* from the mirror alone and leave the queue of pending operations, the mirror
\* and the asynchronous backend as they are.
C6_SyncReadsUseMirrorOnly ==
    [][(IsCallStep /\ call'.op.name \in SyncReads) =>
          /\ UNCHANGED <<mirror, backend, queue_, started, outcome, enqueued>>
          /\ (~disableSync /\ hasSync) => call' = ReadFrom(mirror, call'.op)]_vars

\* a read of an entry that the mirror has and the backend has not yet
C6_Witness ==
    /\ call.op.name = "statSync"
    /\ call.err = "OK"
    /\ ~FsExists(backend, call.op.p)
    /\ InFlight # {}

\* C7: with the async cache disabled (_disableSync), every sync operation throws
\* ENOTSUP and neither the mirror nor the queue is modified.
C7_DisabledSyncIsNotSupported ==
    disableSync =>
        /\ call.op.name \in SyncMethods => call.err = "ENOTSUP"
        /\ mirror = EmptyFs(MirrorRootPerm)
        /\ queue_ = <<>> /\ started = <<>> /\ enqueued = <<>>

\* a mutation the mirror would have taken is refused
C7_Witness ==
    /\ disableSync
    /\ call.op.name = "mkdirSync"
    /\ call.err = "ENOTSUP"
    /\ FsMkdir(mirror, call.op.p, call.op.mode).err = "OK"

\* C8: when an enqueued operation has failed on the asynchronous backend, the
\* next call of ready() or of a sync operation throws the error of that failure.
C8_FailureIsReportedByNextCall ==
    [][(pendingErr # "none" /\ IsCallStep /\ call'.op.name \in SyncMethods \cup {"ready"}) =>
          call'.err = pendingErr]_vars

\* the entry at p is the same in the mirror as on the backend, its mode included
SameEntry(p) ==
    /\ FsExists(mirror, p) <=> FsExists(backend, p)
    /\ mirror[p].mode = backend[p].mode
    /\ mirror[p].data = backend[p].data

Tokens == {"/", "\n", "d", "a", "b", ".deleted", "x"}
Code(t) ==
    CASE t = "/" -> 47 [] t = "\n" -> 10 [] t = "d" -> 100 [] t = "a" -> 97
      [] t = "b" -> 98 [] t = ".deleted" -> 46 [] OTHER -> 120
Token(c) == IF \E t \in Tokens : Code(t) = c THEN CHOOSE t \in Tokens : Code(t) = c ELSE "x"
encode(text) == [i \in 1..Len(text) |-> Code(text[i])]
decode(bytes) == [i \in 1..Len(bytes) |-> Token(bytes[i])]

\* the line deletePath() adds to the log for a path
LogLine(path) == <<"d">> \o path \o <<"\n">>

\* String.split('\n'): the pieces of text between the line feeds
RECURSIVE SplitLines(_, _)
SplitLines(text, cur) ==
    IF text = <<>> THEN <<cur>>
    ELSE IF Head(text) = "\n" THEN <<cur>> \o SplitLines(Tail(text), <<>>)
    ELSE SplitLines(Tail(text), Append(cur, Head(text)))

UnlockedOverlayFS_reparseDeletionLog(log) ==
    LET entries == SplitLines(log, <<>>)
    IN  {Tail(entries[i]) : i \in {j \in 1..Len(entries) :
                                      entries[j] # <<>> /\ Head(entries[j]) = "d"}}

\* the fields of the overlay as one value
Overlay ==
    [W |-> ovW, R |-> ovR, init |-> ovInit, deleted |-> deletedFiles, log |-> deleteLog,
     pending |-> updatePending, needed |-> updateNeeded, error |-> deleteLogError,
     pc |-> flushPc, text |-> flushText]

OvRet(err, ov, val) == [err |-> err, ov |-> ov, val |-> val]

UnlockedOverlayFS_checkInitialized(ov) ==
    IF ~ov.init THEN [err |-> "EPERM", ov |-> ov]
    ELSE IF ov.error = "none" THEN [err |-> "OK", ov |-> ov]
    ELSE [err |-> ov.error, ov |-> [ov EXCEPT !.error = "none"]]

UnlockedOverlayFS_checkPath(path) == IF path = deletionLogPath THEN "EPERM" ELSE "OK"

\* new Stats(stats): a mode without a type is the mode of a regular file
StatsCommon_new(mode) == IF BitAnd(mode, S_IFMT) = 0 THEN BitOr(mode, S_IFREG) ELSE mode

Mutant_UnlockedOverlayFS_stat(ov, path) ==
    LET c == UnlockedOverlayFS_checkInitialized(ov)
        w == FsStat(c.ov.W, path)
        r == FsStat(c.ov.R, path)
    IN  IF c.err # "OK" THEN OvRet(c.err, c.ov, NoVal)
        ELSE IF w.err = "OK"
        THEN OvRet("OK", c.ov, [NoVal EXCEPT !.mode = w.mode, !.size = w.size])
        ELSE IF r.err # "OK" THEN OvRet(r.err, c.ov, NoVal)
        ELSE OvRet("OK", c.ov, [NoVal EXCEPT !.mode = BitOr(StatsCommon_new(r.mode), 146),
                                             !.size = r.size])

UnlockedOverlayFS_stat(ov, path) ==
    LET c == UnlockedOverlayFS_checkInitialized(ov)
        w == FsStat(c.ov.W, path)
        r == FsStat(c.ov.R, path)
    IN  IF c.err # "OK" THEN OvRet(c.err, c.ov, NoVal)
        ELSE IF w.err = "OK"
        THEN OvRet("OK", c.ov, [NoVal EXCEPT !.mode = w.mode, !.size = w.size])
        ELSE IF path \in c.ov.deleted THEN OvRet("ENOENT", c.ov, NoVal)
        ELSE IF r.err # "OK" THEN OvRet(r.err, c.ov, NoVal)
        ELSE OvRet("OK", c.ov, [NoVal EXCEPT !.mode = BitOr(StatsCommon_new(r.mode), 146),
                                             !.size = r.size])

UnlockedOverlayFS_statSync(ov, path) ==
    LET c == UnlockedOverlayFS_checkInitialized(ov)
        w == FsStat(c.ov.W, path)
        r == FsStat(c.ov.R, path)
    IN  IF c.err # "OK" THEN OvRet(c.err, c.ov, NoVal)
        ELSE IF w.err = "OK"
        THEN OvRet("OK", c.ov, [NoVal EXCEPT !.mode = w.mode, !.size = w.size])
        ELSE IF path \in c.ov.deleted THEN OvRet("ENOENT", c.ov, NoVal)
        ELSE IF r.err # "OK" THEN OvRet(r.err, c.ov, NoVal)
        ELSE OvRet("OK", c.ov, [NoVal EXCEPT !.mode = BitOr(StatsCommon_new(r.mode), 146),
                                             !.size = r.size])

\* FileSystem.existsSync on the overlay: statSync, and the state it leaves
UnlockedOverlayFS_existsSync(ov, path) ==
    LET s == UnlockedOverlayFS_statSync(ov, path)
    IN  [flag |-> FileSystem_exists(s.err), ov |-> s.ov]

UnlockedOverlayFS_openFileSync(ov, path) ==
    IF FileSystem_exists(FsStat(ov.W, path).err)
    THEN LET f == FsOpenFile(ov.W, path)
         IN  OvRet(f.err, ov, [NoVal EXCEPT !.mode = f.mode, !.data = f.data, !.flag = TRUE])
    ELSE LET f == FsOpenFile(ov.R, path)
         IN  IF f.err # "OK" THEN OvRet(f.err, ov, NoVal)
             ELSE OvRet("OK", ov, [NoVal EXCEPT !.mode = StatsCommon_new(f.mode),
                                                !.data = f.data])

UnlockedOverlayFS_createFileSync(ov, path, mode) ==
    LET c == UnlockedOverlayFS_checkInitialized(ov)
        w == FsCreateFile(c.ov.W, path, mode)
    IN  IF c.err # "OK" THEN OvRet(c.err, c.ov, NoVal)
        ELSE IF w.err # "OK" THEN OvRet(w.err, c.ov, NoVal)
        ELSE UnlockedOverlayFS_openFileSync([c.ov EXCEPT !.W = w.fs], path)

\* Array.filter with seenMap: the first occurrence of every name, in order
RECURSIVE FirstOccurrences(_, _)
FirstOccurrences(names, seen) ==
    IF names = <<>> THEN <<>>
    ELSE IF Head(names) \in seen THEN FirstOccurrences(Tail(names), seen)
    ELSE <<Head(names)>> \o FirstOccurrences(Tail(names), seen \cup {Head(names)})

\* `${path}/${fPath}`: the key looked up in _deletedFiles for an entry of R
DeletedKey(path, fPath) == path \o <<"/", fPath>>

UnlockedOverlayFS_readdirSync(ov, path) ==
    LET c == UnlockedOverlayFS_checkInitialized(ov)
        s == UnlockedOverlayFS_statSync(c.ov, path)
        w == FsReaddir(s.ov.W, path)
        r == FsReaddir(s.ov.R, path)
        kept == SelectSeq(r.names, LAMBDA fPath : DeletedKey(path, fPath) \notin s.ov.deleted)
        contents == (IF w.err = "OK" THEN w.names ELSE <<>>)
                    \o (IF r.err = "OK" THEN kept ELSE <<>>)
    IN  IF c.err # "OK" THEN OvRet(c.err, c.ov, NoVal)
        ELSE IF s.err # "OK" THEN OvRet(s.err, s.ov, NoVal)
        ELSE IF ~isDirectory(s.val.mode) THEN OvRet("ENOTDIR", s.ov, NoVal)
        ELSE OvRet("OK", s.ov, [NoVal EXCEPT !.names = FirstOccurrences(contents, {})])

\* updateLog() up to its first await
UnlockedOverlayFS_updateLog(ov, addition) ==
    LET logged == [ov EXCEPT !.log = @ \o addition]
    IN  IF logged.pending THEN [logged EXCEPT !.needed = TRUE]
        ELSE [logged EXCEPT !.pending = TRUE, !.pc = "open"]

UnlockedOverlayFS_deletePath(ov, path) ==
    UnlockedOverlayFS_updateLog([ov EXCEPT !.deleted = @ \cup {path}], LogLine(path))

UnlockedOverlayFS_unlinkSync(ov, path) ==
    LET c == UnlockedOverlayFS_checkInitialized(ov)
        e1 == UnlockedOverlayFS_existsSync(c.ov, path)
        onW == FileSystem_exists(FsStat(e1.ov.W, path).err)
        w == IF onW THEN FsUnlink(e1.ov.W, path) ELSE Ok(e1.ov.W)
        e2 == UnlockedOverlayFS_existsSync([e1.ov EXCEPT !.W = w.fs], path)
    IN  IF c.err # "OK" THEN OvRet(c.err, c.ov, NoVal)
        ELSE IF UnlockedOverlayFS_checkPath(path) # "OK"
        THEN OvRet(UnlockedOverlayFS_checkPath(path), c.ov, NoVal)
        ELSE IF ~e1.flag THEN OvRet("ENOENT", e1.ov, NoVal)
        ELSE IF w.err # "OK" THEN OvRet(w.err, e1.ov, NoVal)
        ELSE IF e2.flag THEN OvRet("OK", UnlockedOverlayFS_deletePath(e2.ov, path), NoVal)
        ELSE OvRet("OK", e2.ov, NoVal)

\* createParentDirectoriesSync: the directories above path that W lacks, nearest first
RECURSIVE MissingParents(_, _)
MissingParents(writable, parent) ==
    IF FileSystem_exists(FsStat(writable, parent).err) THEN <<>>
    ELSE <<parent>> \o MissingParents(writable, dirname(parent))

\* createParentDirectoriesSync: the loop over toCreate, from entry i on
RECURSIVE CreateEach(_, _, _)
CreateEach(ov, toCreate, i) ==
    IF i > Len(toCreate) THEN [err |-> "OK", ov |-> ov]
    ELSE LET s == UnlockedOverlayFS_statSync(ov, toCreate[i])
             w == FsMkdir(s.ov.W, toCreate[i], s.val.mode)
         IN  IF s.err # "OK" THEN [err |-> s.err, ov |-> s.ov]
             ELSE IF w.err # "OK" THEN [err |-> w.err, ov |-> s.ov]
             ELSE CreateEach([s.ov EXCEPT !.W = w.fs], toCreate, i + 1)

\* Array.reverse
Reverse(seq) == [i \in 1..Len(seq) |-> seq[Len(seq) + 1 - i]]

UnlockedOverlayFS_createParentDirectoriesSync(ov, path) ==
    CreateEach(ov, Reverse(MissingParents(ov.W, dirname(path))), 1)

UnlockedOverlayFS_mkdirSync(ov, path, mode) ==
    LET c == UnlockedOverlayFS_checkInitialized(ov)
        e == UnlockedOverlayFS_existsSync(c.ov, path)
        cp == UnlockedOverlayFS_createParentDirectoriesSync(e.ov, path)
        w == FsMkdir(cp.ov.W, path, mode)
    IN  IF c.err # "OK" THEN OvRet(c.err, c.ov, NoVal)
        ELSE IF e.flag THEN OvRet("EEXIST", e.ov, NoVal)
        ELSE IF cp.err # "OK" THEN OvRet(cp.err, cp.ov, NoVal)
        ELSE IF w.err # "OK" THEN OvRet(w.err, cp.ov, NoVal)
        ELSE OvRet("OK", [cp.ov EXCEPT !.W = w.fs], NoVal)

\* sync(): the parents, then the file when W lacks it, then W.sync
Mutant_UnlockedOverlayFS_sync(ov, path, data, mode) ==
    LET r == FsSync(ov.R, path, data, mode)
    IN  OvRet(r.err, [ov EXCEPT !.R = r.fs], NoVal)

UnlockedOverlayFS_sync(ov, path, data, mode) ==
    LET cp == UnlockedOverlayFS_createParentDirectoriesSync(ov, path)
        cf == IF FileSystem_exists(FsStat(cp.ov.W, path).err) THEN Ok(cp.ov.W)
              ELSE FsCreateFile(cp.ov.W, path, 420)
        w == FsSync(cf.fs, path, data, mode)
    IN  IF cp.err # "OK" THEN OvRet(cp.err, cp.ov, NoVal)
        ELSE IF cf.err # "OK" THEN OvRet(cf.err, cp.ov, NoVal)
        ELSE IF w.err # "OK" THEN OvRet(w.err, [cp.ov EXCEPT !.W = cf.fs], NoVal)
        ELSE OvRet("OK", [cp.ov EXCEPT !.W = w.fs], NoVal)

\* syncSync(): the parents, then W.syncSync
UnlockedOverlayFS_syncSync(ov, path, data, mode) ==
    LET cp == UnlockedOverlayFS_createParentDirectoriesSync(ov, path)
        w == FsSync(cp.ov.W, path, data, mode)
    IN  IF cp.err # "OK" THEN OvRet(cp.err, cp.ov, NoVal)
        ELSE IF w.err # "OK" THEN OvRet(w.err, cp.ov, NoVal)
        ELSE OvRet("OK", [cp.ov EXCEPT !.W = w.fs], NoVal)

UnlockedOverlayFS_rmdirSync(ov, path) ==
    LET c == UnlockedOverlayFS_checkInitialized(ov)
        e1 == UnlockedOverlayFS_existsSync(c.ov, path)
        onW == FileSystem_exists(FsStat(e1.ov.W, path).err)
        w == IF onW THEN FsRmdir(e1.ov.W, path) ELSE Ok(e1.ov.W)
        e2 == UnlockedOverlayFS_existsSync([e1.ov EXCEPT !.W = w.fs], path)
        l == UnlockedOverlayFS_readdirSync(e2.ov, path)
    IN  IF c.err # "OK" THEN OvRet(c.err, c.ov, NoVal)
        ELSE IF ~e1.flag THEN OvRet("ENOENT", e1.ov, NoVal)
        ELSE IF w.err # "OK" THEN OvRet(w.err, e1.ov, NoVal)
        ELSE IF ~e2.flag THEN OvRet("OK", e2.ov, NoVal)
        ELSE IF l.err # "OK" THEN OvRet(l.err, l.ov, NoVal)
        ELSE IF Len(l.val.names) > 0 THEN OvRet("ENOTEMPTY", l.ov, NoVal)
        ELSE OvRet("OK", UnlockedOverlayFS_deletePath(l.ov, path), NoVal)

UnlockedOverlayFS_renameSync(ov, oldPath, newPath) ==
    LET c == UnlockedOverlayFS_checkInitialized(ov)
        w == FsRename(c.ov.W, oldPath, newPath)
    IN  IF c.err # "OK" THEN OvRet(c.err, c.ov, NoVal)
        ELSE IF UnlockedOverlayFS_checkPath(oldPath) # "OK" THEN OvRet("EPERM", c.ov, NoVal)
        ELSE IF UnlockedOverlayFS_checkPath(newPath) # "OK" THEN OvRet("EPERM", c.ov, NoVal)
        ELSE IF w.err = "OK" THEN OvRet("OK", [c.ov EXCEPT !.W = w.fs], NoVal)
        ELSE IF oldPath \in c.ov.deleted THEN OvRet("ENOENT", c.ov, NoVal)
        ELSE OvRet("OK", c.ov, NoVal)

UnlockedOverlayFS_linkSync(ov, srcpath, dstpath) ==
    LET c == UnlockedOverlayFS_checkInitialized(ov)
        w == FsLink(c.ov.W, srcpath, dstpath)
    IN  IF c.err # "OK" THEN OvRet(c.err, c.ov, NoVal)
        ELSE IF w.err # "OK" THEN OvRet(w.err, c.ov, NoVal)
        ELSE OvRet("OK", [c.ov EXCEPT !.W = w.fs], NoVal)

\* restoreDeletionLog(log): the log in memory is replaced and parsed, and
\* `await this.updateLog('')`: the call that has started an update of the log
\* is settled by the end of that update ("AWAIT")
UnlockedOverlayFS_restoreDeletionLog(ov, log) ==
    LET parsed == [ov EXCEPT !.log = log,
                             !.deleted = UnlockedOverlayFS_reparseDeletionLog(log)]
        r == UnlockedOverlayFS_updateLog(parsed, <<>>)
    IN  IF ~ov.pending /\ r.pending THEN OvRet("AWAIT", r, NoVal)
        ELSE OvRet("OK", r, NoVal)

\* unlink(): the statements of unlinkSync, and `await this.deletePath(...)`: the
\* call that has started an update of the log is settled by the end of that
\* update ("AWAIT"); val.flag tells that R alone held the path
UnlockedOverlayFS_unlink(ov, path) ==
    LET r == UnlockedOverlayFS_unlinkSync(ov, path)
        onlyR == ~FsExists(ov.W, path) /\ FsExists(ov.R, path)
    IN  IF r.err = "OK" /\ ~ov.pending /\ r.ov.pending
        THEN OvRet("AWAIT", r.ov, [NoVal EXCEPT !.flag = onlyR])
        ELSE r

\* _initialize(): the log of W, if there is one, becomes _deleteLog
UnlockedOverlayFS_initialize(ov) ==
    IF ov.init THEN ov
    ELSE LET f == FsOpenFile(ov.W, deletionLogPath)
             log == IF f.err = "OK" THEN decode(f.data) ELSE ov.log
         IN  [ov EXCEPT !.log = log, !.init = TRUE,
                        !.deleted = UnlockedOverlayFS_reparseDeletionLog(log)]

\* PreloadFile.write at position 0 of a file that is not truncated
Overwrite(old, new) == new \o SubSeq(old, Len(new) + 1, Len(old))

\* updateLog() from the return of openFile to the call of log.write
UnlockedOverlayFS_updateLogOpened(ov) ==
    IF FsOpenFile(ov.W, deletionLogPath).err # "OK"
    THEN [ov EXCEPT !.pc = "idle"]
    ELSE [ov EXCEPT !.pc = "write", !.text = ov.log]

\* updateLog() from the return of log.write to its end
UnlockedOverlayFS_updateLogWritten(ov, writeErr) ==
    LET file == ov.W[deletionLogPath]
        written == [ov EXCEPT !.W = [@ EXCEPT ![deletionLogPath] =
                         [file EXCEPT !.data = Overwrite(@, encode(ov.text))]]]
        again == IF written.needed
                 THEN UnlockedOverlayFS_updateLog([written EXCEPT !.needed = FALSE], <<>>)
                 ELSE written
    IN  IF writeErr # "none"
        THEN [ov EXCEPT !.error = writeErr, !.pending = FALSE, !.pc = "idle", !.text = <<>>]
        ELSE [again EXCEPT !.pending = FALSE, !.pc = "idle", !.text = <<>>]

\* the paths the clients pass to the overlay
OvPaths == Paths \cup {deletionLogPath}

SetOverlay(ov) ==
    /\ ovW' = ov.W /\ ovR' = ov.R /\ ovInit' = ov.init
    /\ deletedFiles' = ov.deleted /\ deleteLog' = ov.log
    /\ updatePending' = ov.pending /\ updateNeeded' = ov.needed
    /\ deleteLogError' = ov.error /\ flushPc' = ov.pc /\ flushText' = ov.text

\* the methods of the overlay that change it
OvMutators == {"createFileSync", "unlink", "unlinkSync", "mkdirSync", "rmdirSync",
               "renameSync"}

\* the methods behind the handles of openFile
OvSyncs == {"sync", "syncSync"}

\* the calls the model counts
OvCounted == OvMutators \cup OvSyncs \cup {"linkSync", "restoreDeletionLog"}

OvDone(op, r) ==
    /\ Idle
    /\ op.name \in OvCounted => ovOps < MaxOvOps
    /\ ovOps' = IF op.name \in OvCounted /\ r.ov # Overlay
              THEN ovOps + 1 ELSE ovOps
    /\ call' = Call(op, r.err, r.val)
    /\ SetOverlay(r.ov)
    /\ unlinked' = IF /\ op.name \in {"unlink", "unlinkSync"} /\ r.err = "OK"
                      /\ ~FsExists(ovW, op.p) /\ FsExists(ovR, op.p)
                   THEN unlinked \cup {op.p} ELSE unlinked
    /\ unreported' = "none"
    /\ UNCHANGED flushFailed
    /\ UNCHANGED <<roVars, stVars, cfVars, asVars>>

\* the promise of _initialize(), started by the constructor, resolves
OvInitialize ==
    /\ Idle
    /\ ~ovInit
    /\ SetOverlay(UnlockedOverlayFS_initialize(Overlay))
    /\ UNCHANGED <<call, roVars, stVars, cfVars, asVars, unlinked, flushFailed, unreported, ovOps>>

OvStat ==
    \E path \in OvPaths :
        OvDone(Op("stat", path, Root, 0, <<>>), UnlockedOverlayFS_stat(Overlay, path))

OvStatSync ==
    \E path \in OvPaths :
        OvDone(Op("statSync", path, Root, 0, <<>>), UnlockedOverlayFS_statSync(Overlay, path))

OvCreateFileSync ==
    \E path \in OvPaths, mode \in FilePerms :
        OvDone(Op("createFileSync", path, Root, mode, <<>>),
               UnlockedOverlayFS_createFileSync(Overlay, path, mode))

OvUnlinkSync ==
    \E path \in OvPaths :
        OvDone(Op("unlinkSync", path, Root, 0, <<>>),
               UnlockedOverlayFS_unlinkSync(Overlay, path))

OvUnlink ==
    \E path \in OvPaths :
        OvDone(Op("unlink", path, Root, 0, <<>>), UnlockedOverlayFS_unlink(Overlay, path))

OvMkdirSync ==
    \E path \in OvPaths, mode \in DirPerms :
        OvDone(Op("mkdirSync", path, Root, mode, <<>>),
               UnlockedOverlayFS_mkdirSync(Overlay, path, mode))

OvRmdirSync ==
    \E path \in OvPaths :
        OvDone(Op("rmdirSync", path, Root, 0, <<>>),
               UnlockedOverlayFS_rmdirSync(Overlay, path))

OvRenameSync ==
    \E oldPath \in OvPaths, newPath \in OvPaths :
        OvDone(Op("renameSync", oldPath, newPath, 0, <<>>),
               UnlockedOverlayFS_renameSync(Overlay, oldPath, newPath))

OvOpenFileSync ==
    \E path \in OvPaths :
        OvDone(Op("openFileSync", path, Root, 0, <<>>),
               UnlockedOverlayFS_openFileSync(Overlay, path))

\* a handle of openFile is synced: PreloadFile hands its path, bytes and stats
\* to sync() of the file system that made it
\* the paths openFile has a handle for: the files of W and of R
Opened ==
    {p \in OvPaths : \/ FsExists(ovW, p) /\ isFile(ovW[p].mode)
                     \/ FsExists(ovR, p) /\ isFile(ovR[p].mode)}

OvSync ==
    \E path \in Opened, data \in Bytes, perm \in FilePerms :
        OvDone(Op("sync", path, Root, File(perm, <<>>).mode, data),
               UnlockedOverlayFS_sync(Overlay, path, data, File(perm, <<>>).mode))

OvSyncSync ==
    \E path \in Opened, data \in Bytes, perm \in FilePerms :
        OvDone(Op("syncSync", path, Root, File(perm, <<>>).mode, data),
               UnlockedOverlayFS_syncSync(Overlay, path, data, File(perm, <<>>).mode))

OvLinkSync ==
    \E srcpath \in OvPaths, dstpath \in OvPaths :
        OvDone(Op("linkSync", srcpath, dstpath, 0, <<>>),
               UnlockedOverlayFS_linkSync(Overlay, srcpath, dstpath))

\* the logs the clients restore: one written by an overlay, and one whose last
\* line has no line feed
RestoreSamples ==
    {LogLine(join(Root, "b")),
     <<"d">> \o join(Root, "a")}

OvRestoreDeletionLog ==
    \E log \in RestoreSamples :
        OvDone(Op("restoreDeletionLog", Root, Root, 0, encode(log)),
               UnlockedOverlayFS_restoreDeletionLog(Overlay, log))

OvExistsSync ==
    \E path \in OvPaths :
        LET e == UnlockedOverlayFS_existsSync(Overlay, path)
        IN  OvDone(Op("existsSync", path, Root, 0, <<>>),
                   OvRet("OK", e.ov, [NoVal EXCEPT !.flag = e.flag]))

OvReaddirSync ==
    \E path \in OvPaths :
        OvDone(Op("readdirSync", path, Root, 0, <<>>),
               UnlockedOverlayFS_readdirSync(Overlay, path))

\* an unlink() is waiting for the update of the log it has started
Awaiting == call.err = "AWAIT"

\* the openFile awaited by updateLog() settles; a failure is thrown to the
\* unlink() that awaits the update
FlushOpened ==
    LET err == FsOpenFile(ovW, deletionLogPath).err
    IN  /\ Idle \/ Awaiting
        /\ flushPc = "open"
        /\ SetOverlay(UnlockedOverlayFS_updateLogOpened(Overlay))
        /\ flushFailed' = (flushFailed \/ err # "OK")
        /\ call' = IF Awaiting /\ err # "OK" THEN [call EXCEPT !.err = err] ELSE call
        /\ unreported' = IF err # "OK" /\ ~Awaiting THEN err ELSE unreported
        /\ UNCHANGED <<roVars, stVars, cfVars, asVars, unlinked, ovOps>>

\* the log.write awaited by updateLog() settles; the unlink() that awaits the
\* update returns
FlushWritten ==
    \E writeErr \in {"none", "EIO"} :
        /\ Idle \/ Awaiting
        /\ flushPc = "write"
        /\ SetOverlay(UnlockedOverlayFS_updateLogWritten(Overlay, writeErr))
        /\ flushFailed' = (flushFailed \/ writeErr # "none")
        /\ call' = IF Awaiting THEN [call EXCEPT !.err = "OK"] ELSE call
        /\ unlinked' = IF Awaiting /\ call.val.flag THEN unlinked \cup {call.op.p}
                       ELSE unlinked
        /\ unreported' = IF writeErr # "none" THEN writeErr ELSE unreported
        /\ UNCHANGED <<roVars, stVars, cfVars, asVars, ovOps>>

EmptyOvFs(rootPerm) == [p \in OvPaths |-> IF p = Root THEN Dir(rootPerm) ELSE NoNode]

\* the trees of the read-only layer at construction
ReadableSamples ==
    {EmptyOvFs(365),
     [EmptyOvFs(365) EXCEPT ![join(Root, "a")] = File(292, <<1>>),
                            ![join(Root, "b")] = Dir(365),
                            ![join(join(Root, "b"), "a")] = File(256, <<2, 3>>)],
     [EmptyOvFs(493) EXCEPT ![join(Root, "a")] = Dir(320),
                            ![join(join(Root, "a"), "b")] = File(420, <<>>),
                            ![join(Root, "b")] = File(292, <<4>>)]}

\* the trees of the writable layer at construction, with and without a log
WritableSamples ==
    {EmptyOvFs(511),
     [EmptyOvFs(511) EXCEPT ![deletionLogPath] = File(420, <<>>),
                            ![join(Root, "a")] = File(384, <<9>>),
                            ![join(Root, "b")] = Dir(493)],
     [EmptyOvFs(511) EXCEPT ![deletionLogPath] =
                                File(420, encode(LogLine(join(Root, "a"))
                                                 \o LogLine(join(join(Root, "b"), "a")))),
                            ![join(Root, "b")] = Dir(493)],
     [EmptyOvFs(511) EXCEPT ![deletionLogPath] =
                                File(420, encode(<<"x", "/", "a", "\n">>
                                                 \o LogLine(join(Root, "b"))))]}

InitOverlay ==
    /\ call = NoCall
    /\ RoIdle
    /\ AsIdle
    /\ StIdle
    /\ CfIdle
    /\ ovW \in WritableSamples
    /\ ovR \in ReadableSamples
    /\ ovInit = FALSE /\ deletedFiles = {} /\ deleteLog = <<>>
    /\ updatePending = FALSE /\ updateNeeded = FALSE /\ deleteLogError = "none"
    /\ flushPc = "idle" /\ flushText = <<>>
    /\ unlinked = {} /\ flushFailed = FALSE /\ unreported = "none" /\ ovOps = 0

NextOverlay ==
    \/ Return
    \/ OvInitialize
    \/ OvStat
    \/ OvStatSync
    \/ OvCreateFileSync
    \/ OvUnlinkSync
    \/ OvUnlink
    \/ OvMkdirSync
    \/ OvRmdirSync
    \/ OvRenameSync
    \/ OvOpenFileSync
    \/ OvSync
    \/ OvSyncSync
    \/ OvLinkSync
    \/ OvRestoreDeletionLog
    \/ OvExistsSync
    \/ OvReaddirSync
    \/ FlushOpened
    \/ FlushWritten

SpecOverlay == InitOverlay /\ [][NextOverlay]_vars

\* C10: stat(p) and statSync(p) of an initialized overlay that holds no error
\* of a log update: when p exists on W the result is W's stats of p;
\* otherwise, when p is a deleted name, the call fails with ENOENT; otherwise
\* the result is R's outcome for p, an error as it is, stats with the write
\* bits 0o222 added to the mode and the type bits as R has them.
C10_StatLooksAtWThenLogThenR ==
    [][(call'.op.name \in {"stat", "statSync"} /\ ovInit /\ deleteLogError = "none") =>
         LET p == call'.op.p
         IN  IF FsExists(ovW, p)
             THEN /\ call'.err = "OK"
                  /\ call'.val.mode = ovW[p].mode
                  /\ call'.val.size = Len(ovW[p].data)
             ELSE IF p \in deletedFiles THEN call'.err = "ENOENT"
             ELSE IF ~FsExists(ovR, p) THEN call'.err = "ENOENT"
             ELSE /\ call'.err = "OK"
                  /\ call'.val.size = Len(ovR[p].data)
                  /\ BitAnd(call'.val.mode, 146) = 146
                  /\ \A bit \in 0..(ModeBits - 1) :
                        BitAnd(146, 2 ^ bit) = 0 =>
                            BitAnd(call'.val.mode, 2 ^ bit) = BitAnd(ovR[p].mode, 2 ^ bit)
                  /\ BitAnd(call'.val.mode, S_IFMT) = BitAnd(ovR[p].mode, S_IFMT)]_vars

\* a stat answered from R with write bits R does not have, names being deleted
C10_Witness ==
    /\ call.op.name \in {"stat", "statSync"}
    /\ call.err = "OK"
    /\ ~FsExists(ovW, call.op.p)
    /\ FsExists(ovR, call.op.p)
    /\ call.val.mode # ovR[call.op.p].mode
    /\ deletedFiles # {}
    /\ call.op.p \notin deletedFiles

\* C11: once unlink(p) has succeeded for a path p that only R holds, and as
\* long as p is not created anew on W, exists(p) answers false and a listing
\* of the directory of p does not hold the name of p; so also for a p
\* directly under '/'.
C11_UnlinkHides ==
    \A p \in unlinked :
        ~FsExists(ovW, p) =>
            /\ (call.op.name = "existsSync" /\ call.op.p = p) => ~call.val.flag
            /\ (call.op.name = "readdirSync" /\ call.err = "OK" /\ call.op.p = dirname(p)) =>
                   \A i \in 1..Len(call.val.names) : call.val.names[i] # basename(p)

\* new UnlockedOverlayFS({writable, readable}), once its ready() has resolved
Reopened(writable, readable) ==
    UnlockedOverlayFS_initialize(
        [W |-> writable, R |-> readable, init |-> FALSE, deleted |-> {}, log |-> <<>>,
         pending |-> FALSE, needed |-> FALSE, error |-> "none", pc |-> "idle",
         text |-> <<>>])

\* C12: on a writable layer that held no /.deleted file, whenever the updates
\* of the log have ended, an overlay built anew over the same writable layer
\* has, once ready, the deleted names of this overlay.
C12_ReopenedOverlayHasSameDeletedNames ==
    (ovInit /\ flushPc = "idle" /\ ~FsExists(ovW, deletionLogPath)) =>
        Reopened(ovW, ovR).deleted = deletedFiles

\* an updateLog() is between its start and its end: the one write of the log
\* that can be under way
FlushInFlight == flushPc # "idle"

\* C13: _deleteLogUpdatePending is true exactly while an update of the log
\* is under way: no update starts while one runs, and the flag is false again
\* once the update has ended, whether it succeeded or failed.
C13_PendingExactlyWhileFlushing == updatePending <=> FlushInFlight

\* the text of the log as the writable layer holds it
StoredLog == IF FsExists(ovW, deletionLogPath) THEN decode(ovW[deletionLogPath].data) ELSE <<>>

\* C14: a deletion recorded while an update of the log is under way is
\* written by a further update that follows at once; so whenever no update
\* is under way and none has failed, the writable layer holds the log that
\* is in memory.
C14_StoredLogCatchesUp ==
    (ovInit /\ ~FlushInFlight /\ ~flushFailed) => StoredLog = deleteLog

\* C15: the error of an update of the log that failed, in opening or in
\* writing /.deleted, is thrown by the next call of the overlay, and the
\* call after that one does not meet it again.
C15_FlushFailureThrownOnce ==
    [][(Idle /\ call' # NoCall) =>
         /\ unreported # "none" => call'.err = unreported
         /\ unreported = "none" => call'.err # "EIO"]_vars

\* the call made by this step names /.deleted as its path, or as the source
\* or the destination of a rename
OnProtectedPath ==
    /\ call'.op.name \in {"stat", "statSync", "openFileSync", "createFileSync",
                          "mkdirSync", "rmdirSync", "unlinkSync", "renameSync",
                          "readdirSync"}
    /\ \/ call'.op.p = deletionLogPath
       \/ call'.op.name = "renameSync" /\ call'.op.q = deletionLogPath

\* C16: a call of an initialized overlay (no error of a log update pending)
\* on the path /.deleted fails with EPERM and leaves the log file of the
\* writable layer as it is.
C16_ProtectedPathIsRefused ==
    [][(OnProtectedPath /\ ovInit /\ deleteLogError = "none") =>
         /\ call'.err = "EPERM"
         /\ ovW'[deletionLogPath] = ovW[deletionLogPath]]_vars

\* the entries of directory p on a layer, none when the layer has no such directory
LayerNames(fs, p) == IF FsReaddir(fs, p).err = "OK" THEN FsReaddir(fs, p).names ELSE <<>>

\* the listing of p the layers and the deleted names call for
MergedNames(p) ==
    FirstOccurrences(
        LayerNames(ovW, p)
        \o SelectSeq(LayerNames(ovR, p), LAMBDA n : join(p, n) \notin deletedFiles),
        {})

\* C17: readdirSync(p) of a visible directory p, the root included, returns
\* W's entries of p followed by those entries of R whose full path is not a
\* deleted name, every name once, at its first place.
C17_ReaddirMergesLayers ==
    [][(call'.op.name = "readdirSync" /\ call'.err = "OK" /\ ovInit
        /\ deleteLogError = "none") =>
         call'.val.names = MergedNames(call'.op.p)]_vars

\* p can be seen through the overlay: W holds it, or R does and it is not deleted
Visible(p) == FsExists(ovW, p) \/ (FsExists(ovR, p) /\ p \notin deletedFiles)

\* the mode stat shows for a visible p
VisibleMode(p) == IF FsExists(ovW, p) THEN ovW[p].mode ELSE BitOr(ovR[p].mode, 146)

\* the directories above p, the root left out
Ancestors(p) == {a \in Paths : a # Root /\ Under(a, p)}

\* what createFile and mkdir are to do for the path of the call of this step
CreatesWithParents ==
    LET p == call'.op.p
    IN  IF Visible(p) THEN call'.err = "EEXIST"
        ELSE (\A a \in Ancestors(p) : Visible(a) /\ isDirectory(VisibleMode(a))) =>
                 /\ call'.err = "OK"
                 /\ FsExists(ovW', p)
                 /\ \A a \in Ancestors(p) :
                        /\ FsIsDir(ovW', a)
                        /\ ~FsExists(ovW, a) => ovW'[a].mode = VisibleMode(a)

\* C18: createFileSync(p) and mkdirSync(p) fail with EEXIST when p is
\* visible through the overlay; otherwise, the directories above p being
\* visible, they create on W those that W lacks, with the mode the overlay
\* shows, and then p.
C18_CreateChecksVisibilityAndMakesParents ==
    [][(call'.op.name \in {"createFileSync", "mkdirSync"} /\ ovInit
        /\ deleteLogError = "none") => CreatesWithParents]_vars

\* the part of C18 that is about mkdirSync alone
MkdirChecksVisibilityAndMakesParents ==
    [][(call'.op.name \in {"mkdirSync"} /\ ovInit
        /\ deleteLogError = "none") => CreatesWithParents]_vars

\* C19: rmdirSync(p) of an initialized overlay (no error of a log update
\* pending) on a visible directory p below the root: when the merged listing
\* of p is not empty the call fails with ENOTEMPTY; otherwise it succeeds, p
\* is gone from W, p is a deleted name if R showed it, and p is visible no
\* more.
C19_RmdirOfVisibleDirectory ==
    [][(/\ call'.op.name = "rmdirSync" /\ ovInit /\ deleteLogError = "none"
        /\ call'.op.p # Root
        /\ Visible(call'.op.p) /\ isDirectory(VisibleMode(call'.op.p))) =>
         LET p == call'.op.p
         IN  IF MergedNames(p) # <<>> THEN call'.err = "ENOTEMPTY"
             ELSE /\ call'.err = "OK"
                  /\ ~FsExists(ovW', p)
                  /\ (FsExists(ovR, p) /\ p \notin deletedFiles) => p \in deletedFiles'
                  /\ ~FsExists(ovR', p) \/ p \in deletedFiles']_vars

\* the call made by this step has failed at once and has left W, the deleted
\* names and the log in memory as they were
FailedCallChangedNothing ==
    (Idle /\ call'.op.name \in OvMutators /\ call'.err \notin {"OK", "AWAIT"}) =>
        /\ ovW' = ovW
        /\ deletedFiles' = deletedFiles
        /\ deleteLog' = deleteLog

\* the unlink() that was waiting fails by this step, and its path, visible
\* when it was called, is no deleted name
FailedUnlinkHidNothing ==
    (Awaiting /\ call'.err \notin {"OK", "AWAIT"}) => call.op.p \notin deletedFiles'

\* C20: a call of unlink, rmdir, mkdir, createFile or rename that returns an
\* error leaves the writable layer, the deleted names and the log in memory
\* as they were before the call.
C20_FailedCallIsAllOrNothing ==
    [][FailedCallChangedNothing /\ FailedUnlinkHidNothing]_vars



\* the error, if any, of the operation of W that the call of this step invokes
\* first once its own checks have passed ("OK" when W's operation succeeds)
InnerError(op) ==
    CASE op.name = "renameSync" -> FsRename(ovW, op.p, op.q).err
      [] op.name = "createFileSync" -> FsCreateFile(ovW, op.p, op.mode).err
      [] OTHER -> "OK"

\* C21: when the operation of the writable layer that an Overlay operation
\* invokes fails, the Overlay operation fails with that same error; in
\* particular renameSync(old, new) fails with the error of W.renameSync.
C21_InnerErrorsArePreserved ==
    [][(/\ Idle /\ call'.op.name \in {"renameSync", "createFileSync"}
        /\ ovInit /\ deleteLogError = "none"
        /\ deletionLogPath \notin {call'.op.p, call'.op.q}
        /\ InnerError(call'.op) # "OK") =>
            call'.err = InnerError(call'.op)]_vars

\* the part of C21 that is about createFileSync only
CreateFilePreservesInnerError ==
    [][(/\ Idle /\ call'.op.name = "createFileSync"
        /\ ovInit /\ deleteLogError = "none"
        /\ InnerError(call'.op) # "OK") =>
            call'.err = InnerError(call'.op)]_vars


\* openFileSync(p) of this step has answered with W's file when W holds p, and
\* with a copy of R's bytes and stats when R alone holds the file p
OpenFileTakesWThenCopyOfR ==
    (Idle /\ call'.op.name = "openFileSync") =>
        LET p == call'.op.p
        IN  /\ ovW' = ovW /\ ovR' = ovR
            /\ FsExists(ovW, p) /\ isFile(ovW[p].mode) =>
                  /\ call'.err = "OK" /\ call'.val.flag
                  /\ call'.val.data = ovW[p].data /\ call'.val.mode = ovW[p].mode
            /\ (~FsExists(ovW, p) /\ FsExists(ovR, p) /\ isFile(ovR[p].mode)) =>
                  /\ call'.err = "OK" /\ ~call'.val.flag
                  /\ call'.val.data = ovR[p].data /\ call'.val.mode = ovR[p].mode

\* the handle of a file p that R alone holds, below directories that are
\* visible, is synced by this step (variant `name`): the bytes are on W at p,
\* the directories above p are on W, and R is as it was
SyncCopiesToW(name) ==
    (/\ Idle /\ call'.op.name = name
     /\ ovInit /\ deleteLogError = "none"
     /\ ~FsExists(ovW, call'.op.p)
     /\ FsExists(ovR, call'.op.p) /\ isFile(ovR[call'.op.p].mode)
     /\ \A d \in Ancestors(call'.op.p) : Visible(d) /\ isDirectory(VisibleMode(d))) =>
        LET p == call'.op.p
        IN  /\ call'.err = "OK"
            /\ FsExists(ovW', p) /\ ovW'[p].data = call'.op.data
            /\ \A d \in Ancestors(p) : FsIsDir(ovW', d)
            /\ ovR' = ovR

\* C22: openFile(p) answers with W's handle when W holds p and otherwise with
\* a copy of R's bytes and stats; syncing such a copy, with sync or with
\* syncSync, creates p and its missing parents on W, stores the bytes there
\* and never writes to R.
C22_OpenFileCopiesOnSync ==
    [][/\ OpenFileTakesWThenCopyOfR
       /\ SyncCopiesToW("sync")
       /\ SyncCopiesToW("syncSync")]_vars

\* the parts of C22 that are about openFileSync and about the async sync()
OpenAndAsyncSyncCopyToW ==
    [][OpenFileTakesWThenCopyOfR /\ SyncCopiesToW("sync")]_vars


(***************************************************************************)
(* Stats (InMemory.ts, 719-970): the access check of a stat record.        *)
(***************************************************************************)
\* the largest user or group id of the model
MaxId == 2
Ids == 0..MaxId
\* the credentials of a request: the fields hasAccess reads
Creds == [uid : Ids, gid : Ids, euid : Ids, egid : Ids]
\* the requested access: every combination of R_OK = 4, W_OK = 2 and X_OK = 1
Requests == 0..7
\* the permission bits of the sample files: 0o700, 0o070, 0o007, 0o644, 0o750, 0o000
PermSamples == {448, 56, 7, 420, 488, 0}

\* hasAccess with the test for root left out
Mutant_StatsCommon_hasAccess(st, mode, cred) ==
    LET adjusted == BitOr(BitOr(IF cred.uid = st.uid THEN S_IRWXU ELSE 0,
                                IF cred.gid = st.gid THEN S_IRWXG ELSE 0), S_IRWXO)
    IN  BitAnd(BitAnd(mode, st.mode), adjusted) = mode

\* hasAccess(mode, cred) of the stat record st
StatsCommon_hasAccess(st, mode, cred) ==
    IF cred.euid = 0 \/ cred.egid = 0 THEN TRUE
    ELSE LET adjusted == BitOr(BitOr(IF cred.uid = st.uid THEN S_IRWXU ELSE 0,
                                     IF cred.gid = st.gid THEN S_IRWXG ELSE 0), S_IRWXO)
         IN  BitAnd(BitAnd(mode, st.mode), adjusted) = mode

\* chmod(mode): the type bits stay
StatsCommon_chmod(st, mode) == [st EXCEPT !.mode = BitOr(BitAnd(st.mode, S_IFMT), mode)]

\* chown(uid, gid) with ids in range
StatsCommon_chown(st, uid, gid) == [st EXCEPT !.uid = uid, !.gid = gid]

\* one check of access per state of the record
HasAccess ==
    \E mode \in Requests, cred \in Creds :
        /\ ~access.asked
        /\ access' = [requested |-> mode, cred |-> cred, asked |-> TRUE,
                      result |-> StatsCommon_hasAccess(theStats, mode, cred)]
        /\ UNCHANGED <<call, theStats, roVars, asVars, ovVars, cfVars>>

Chmod ==
    \E mode \in PermSamples :
        /\ theStats' = StatsCommon_chmod(theStats, mode)
        /\ access' = NoAccess
        /\ UNCHANGED <<call, roVars, asVars, ovVars, cfVars>>

Chown ==
    \E uid \in Ids, gid \in Ids :
        /\ theStats' = StatsCommon_chown(theStats, uid, gid)
        /\ access' = NoAccess
        /\ UNCHANGED <<call, roVars, asVars, ovVars, cfVars>>

InitStats ==
    /\ call = NoCall
    /\ RoIdle
    /\ AsIdle
    /\ OvIdle
    /\ CfIdle
    /\ theStats \in [mode : {StatsCommon_new(perm) : perm \in PermSamples}, uid : Ids, gid : Ids]
    /\ access = NoAccess

NextStats ==
    \/ HasAccess
    \/ Chmod
    \/ Chown

SpecStats == InitStats /\ [][NextStats]_vars

(***************************************************************************)
(* Mount configuration (config.ts): resolveMountConfig, configureSingle    *)
(* and configure.  A mount configuration is a FileSystem, a Backend or an  *)
(* object with a backend and options; the options that are themselves     *)
(* mount configurations form a tree, written as the sequence of the trees  *)
(* of those options in the order of Object.entries.                        *)
(***************************************************************************)
\* `_depth > 10`
DepthLimit == 10
\* the number of calls of the configuration functions in one behaviour
MaxCfCalls == 1
\* the deepest and the widest option trees of the model
MaxNesting == 12
MaxSiblings == 12

\* backends: InMemory; Port with no remote attached (ready() fails after the
\* timeout); a backend that is not available; a backend whose required
\* option is missing
Backends == {"InMemory", "Port", "Gone", "Strict"}
Backend_isAvailable(b) == b # "Gone"
checkOptions(b) == IF b = "Strict" THEN "EINVAL" ELSE "OK"
FileSystem_ready(b) == IF b = "Port" THEN "EIO" ELSE "OK"

EntryFs(id) == [kind |-> "fs", backend |-> "none", fs |-> id, dac |-> "unset", options |-> <<>>]
EntryBackend(b) == [kind |-> "backend", backend |-> b, fs |-> 0, dac |-> "unset", options |-> <<>>]
EntryConfig(b, dac, options) ==
    [kind |-> "config", backend |-> b, fs |-> 0, dac |-> dac, options |-> options]
\* a value that is no mount configuration
EntryJunk == [kind |-> "junk", backend |-> "none", fs |-> 0, dac |-> "unset", options |-> <<>>]

isBackend(arg) == arg.kind = "backend"
isBackendConfig(arg) == arg.kind = "config"
isMountConfig(arg) == isBackendConfig(arg) \/ isBackend(arg) \/ arg.kind = "fs"

\* the option tree with `levels` nested configurations one inside the other,
\* where the configuration at level `at` has `siblings` options that are
\* mount configurations (one fewer at the innermost level), the nested one
\* first or last among them
RECURSIVE Shape(_, _, _, _, _)
Shape(l, levels, siblings, at, first) ==
    LET pads == IF l = at THEN [j \in 1..(siblings - 1) |-> <<>>] ELSE <<>>
    IN  IF l = levels THEN pads
        ELSE IF first THEN <<Shape(l + 1, levels, siblings, at, first)>> \o pads
        ELSE pads \o <<Shape(l + 1, levels, siblings, at, first)>>

\* the loop of resolveMountConfig over the options of a configuration, from
\* option j on, with the _depth reached: the check of the depth, then the
\* recursive call with ++_depth.  The nested configurations are InMemory
\* ones, whose creation succeeds; made counts the file systems created.
RECURSIVE ResolveOptions(_, _, _)
ResolveOptions(opts, j, _depth) ==
    IF j > Len(opts) THEN [err |-> "OK", made |-> 0]
    ELSE IF _depth > DepthLimit THEN [err |-> "EINVAL", made |-> 0]
    ELSE LET inner == ResolveOptions(opts[j], 1, _depth + 1)
         IN  IF inner.err # "OK" THEN [err |-> inner.err, made |-> inner.made]
             ELSE LET rest == ResolveOptions(opts, j + 1, _depth + 1)
                  IN  [err |-> rest.err, made |-> inner.made + 1 + rest.made]

\* resolveMountConfig up to its loop (lines 22-37)
ResolveBegin(entry) ==
    IF ~isMountConfig(entry) THEN [NoRs EXCEPT !.pc = "rejected", !.err = "EINVAL"]
    ELSE IF entry.kind = "fs" THEN [NoRs EXCEPT !.pc = "resolved", !.fs = entry.fs]
    ELSE IF isBackend(entry) THEN [NoRs EXCEPT !.pc = "options", !.backend = entry.backend]
    ELSE [NoRs EXCEPT !.pc = "options", !.backend = entry.backend, !.dac = entry.dac,
                      !.options = entry.options]

Reject(err) == [rs EXCEPT !.pc = "rejected", !.err = err]

\* lines 39-53: the options that are mount configurations are resolved
ResolveNested ==
    /\ rs.pc = "options"
    /\ LET r == ResolveOptions(rs.options, 1, 0)
       IN  rs' = IF r.err # "OK" THEN [Reject(r.err) EXCEPT !.made = r.made]
                 ELSE [rs EXCEPT !.pc = "isAvailable", !.made = r.made]
    /\ UNCHANGED <<call, roVars, asVars, ovVars, stVars>>
    /\ UNCHANGED <<mounts, credentials, fsys, cfg, events, cfCalls>>

\* lines 57-59 with the outcome of isAvailable() left unused
Mutant_ResolveIsAvailable ==
    /\ rs.pc = "isAvailable"
    /\ events' = Append(events, "isAvailable")
    /\ rs' = [rs EXCEPT !.pc = "checkOptions"]
    /\ UNCHANGED <<call, roVars, asVars, ovVars, stVars>>
    /\ UNCHANGED <<mounts, credentials, fsys, cfg, cfCalls>>

\* lines 57-59
ResolveIsAvailable ==
    /\ rs.pc = "isAvailable"
    /\ events' = Append(events, "isAvailable")
    /\ rs' = IF Backend_isAvailable(rs.backend) THEN [rs EXCEPT !.pc = "checkOptions"]
             ELSE Reject("EPERM")
    /\ UNCHANGED <<call, roVars, asVars, ovVars, stVars>>
    /\ UNCHANGED <<mounts, credentials, fsys, cfg, cfCalls>>

\* line 60
ResolveCheckOptions ==
    /\ rs.pc = "checkOptions"
    /\ events' = Append(events, "checkOptions")
    /\ rs' = IF checkOptions(rs.backend) = "OK" THEN [rs EXCEPT !.pc = "create"]
             ELSE Reject(checkOptions(rs.backend))
    /\ UNCHANGED <<call, roVars, asVars, ovVars, stVars>>
    /\ UNCHANGED <<mounts, credentials, fsys, cfg, cfCalls>>

\* lines 61-63: create() settles, _disableSync is set, ready() is called
ResolveCreate ==
    /\ rs.pc = "create"
    /\ events' = events \o <<"create", "ready">>
    /\ fsys' = Append(fsys, [backend |-> rs.backend, disableSync |-> (rs.dac = "true"),
                             ready |-> FALSE])
    /\ rs' = [rs EXCEPT !.pc = "ready", !.fs = Len(fsys) + 1]
    /\ UNCHANGED <<call, roVars, asVars, ovVars, stVars>>
    /\ UNCHANGED <<mounts, credentials, cfg, cfCalls>>

\* lines 63-64: ready() settles
ResolveReady ==
    /\ rs.pc = "ready"
    /\ IF FileSystem_ready(rs.backend) = "OK"
       THEN /\ events' = Append(events, "readyDone")
            /\ fsys' = [fsys EXCEPT ![rs.fs].ready = TRUE]
            /\ rs' = [rs EXCEPT !.pc = "resolved"]
       ELSE /\ rs' = Reject(FileSystem_ready(rs.backend))
            /\ UNCHANGED <<events, fsys>>
    /\ UNCHANGED <<call, roVars, asVars, ovVars, stVars>>
    /\ UNCHANGED <<mounts, credentials, cfg, cfCalls>>

\* the mount configurations handed to resolveMountConfig by the client
ResolveSamples ==
    {EntryFs(1), EntryJunk} \cup {EntryBackend(b) : b \in Backends}
        \cup {EntryConfig(b, dac, <<>>) : b \in Backends, dac \in {"unset", "true", "false"}}
        \cup {EntryConfig("InMemory", "unset", Shape(0, levels, siblings, at, first)) :
                levels \in {0, 1, 9, 10, 11, MaxNesting},
                siblings \in {1, 2, 10, 11, MaxSiblings},
                at \in {0, 1, 10},
                first \in BOOLEAN}

\* the client calls resolveMountConfig(config)
CallResolveMountConfig ==
    /\ cfg.op = "none" /\ cfCalls < MaxCfCalls
    /\ \E entry \in ResolveSamples :
        /\ cfg' = [NoCfg EXCEPT !.op = "resolveMountConfig", !.pc = "resolving",
                                !.entries = <<[point |-> "/", entry |-> entry]>>, !.i = 1,
                                !.mounts0 = mounts]
        /\ rs' = ResolveBegin(entry)
    /\ events' = <<>>
    /\ cfCalls' = cfCalls + 1
    /\ UNCHANGED <<call, roVars, asVars, ovVars, stVars>>
    /\ UNCHANGED <<mounts, credentials, fsys>>

\* the promise of the call settles and the client takes its outcome
CfReturn ==
    /\ \/ cfg.pc = "done"
       \/ cfg.op = "resolveMountConfig" /\ rs.pc \in {"resolved", "rejected"}
    /\ cfg' = NoCfg /\ rs' = NoRs /\ events' = <<>>
    /\ UNCHANGED <<call, roVars, asVars, ovVars, stVars>>
    /\ UNCHANGED <<mounts, credentials, fsys, cfCalls>>

\* the mount table: mount(point, fs) and umount(point)
mount(table, point, fs) ==
    IF point \notin MountPoints THEN [err |-> "EINVAL", table |-> table]
    ELSE IF table[point] # 0 THEN [err |-> "EEXIST", table |-> table]
    ELSE [err |-> "OK", table |-> [table EXCEPT ![point] = fs]]

umount(table, point) ==
    IF point \notin MountPoints \/ table[point] = 0 THEN [err |-> "ENOENT", table |-> table]
    ELSE [err |-> "OK", table |-> [table EXCEPT ![point] = 0]]

\* mountObject: the entries are mounted in order, from entry j on
RECURSIVE MountEach(_, _, _, _)
MountEach(table, entries, resolved, j) ==
    IF j > Len(entries) THEN [err |-> "OK", table |-> table]
    ELSE LET r == mount(table, entries[j].point, resolved[j])
         IN  IF r.err # "OK" THEN r ELSE MountEach(r.table, entries, resolved, j + 1)

\* mountObject(mounts): '/' is unmounted first when the object has that key
mountObject(table, entries, resolved) ==
    LET u == IF \E j \in 1..Len(entries) : entries[j].point = "/"
             THEN umount(table, "/") ELSE [err |-> "OK", table |-> table]
    IN  IF u.err # "OK" THEN u ELSE MountEach(u.table, entries, resolved, 1)

\* `'uid' in config ? config.uid || 0 : 0`
IdOrZero(id) == IF id = Unset THEN 0 ELSE id

\* line 108: the credential configure sets
ConfiguredCred(uid, gid) ==
    [uid |-> IdOrZero(uid), gid |-> IdOrZero(gid), suid |-> IdOrZero(uid),
     sgid |-> IdOrZero(gid), euid |-> IdOrZero(uid), egid |-> IdOrZero(gid)]

\* the keys of config.mounts, one of them no absolute path
MountKeys == MountPoints \cup {"tmp"}

\* the mount configurations of the entries of config.mounts
ConfigureEntries ==
    {EntryFs(1), EntryConfig("Strict", "unset", <<>>)}
        \cup {EntryBackend(b) : b \in {"InMemory", "Port", "Gone"}}
        \cup {EntryConfig(b, dac, <<>>) :
                b \in {"InMemory", "Port"}, dac \in {"unset", "true", "false"}}

\* config.mounts as the sequence of Object.entries: up to two entries with
\* different keys; the empty sequence stands for a configuration without mounts
MountsSamples ==
    {<<>>}
        \cup {<<[point |-> k, entry |-> e]>> : k \in MountKeys, e \in ConfigureEntries}
        \cup {s \in {<<[point |-> k1, entry |-> e1], [point |-> k2, entry |-> e2]>> :
                        k1 \in MountKeys, k2 \in MountKeys,
                        e1 \in ConfigureEntries, e2 \in ConfigureEntries} :
                s[1].point # s[2].point}

\* the uid and gid of the configurations
IdSamples == {<<Unset, Unset>>, <<1, Unset>>, <<0, 2>>, <<1, 2>>}

\* configure with the call of setCred left out
Mutant_Configure ==
    /\ cfg.op = "none" /\ cfCalls < MaxCfCalls
    /\ \E ids \in IdSamples, dac \in {"unset", "true", "false"}, entries \in MountsSamples :
        cfg' = [NoCfg EXCEPT !.op = "configure", !.uid = ids[1], !.gid = ids[2],
                             !.dac = dac, !.entries = entries, !.mounts0 = mounts,
                             !.pc = IF entries = <<>> THEN "done" ELSE "loop"]
    /\ rs' = NoRs /\ events' = <<>>
    /\ cfCalls' = cfCalls + 1
    /\ UNCHANGED <<call, roVars, asVars, ovVars, stVars>>
    /\ UNCHANGED <<mounts, fsys, credentials>>

\* configure, lines 104-112: the credential is set; without mounts it returns
Configure ==
    /\ cfg.op = "none" /\ cfCalls < MaxCfCalls
    /\ \E ids \in IdSamples, dac \in {"unset", "true", "false"}, entries \in MountsSamples :
        /\ credentials' = ConfiguredCred(ids[1], ids[2])
        /\ cfg' = [NoCfg EXCEPT !.op = "configure", !.uid = ids[1], !.gid = ids[2],
                                !.dac = dac, !.entries = entries, !.mounts0 = mounts,
                                !.pc = IF entries = <<>> THEN "done" ELSE "loop"]
    /\ rs' = NoRs /\ events' = <<>>
    /\ cfCalls' = cfCalls + 1
    /\ UNCHANGED <<call, roVars, asVars, ovVars, stVars>>
    /\ UNCHANGED <<mounts, fsys>>

\* line 120: the entry as resolveMountConfig gets it
WithGlobalCache(entry, dac) ==
    IF isBackendConfig(entry) /\ entry.dac = "unset"
    THEN [entry EXCEPT !.dac = IF dac = "true" THEN "true" ELSE "false"]
    ELSE entry

\* lines 114-123 for entry i, up to the call of resolveMountConfig
EnterEntry(c, i) ==
    IF c.entries[i].point \notin MountPoints
    THEN [cfg |-> [c EXCEPT !.i = i, !.pc = "done", !.err = "EINVAL", !.failedAt = "point"],
          rs |-> NoRs]
    ELSE [cfg |-> [c EXCEPT !.i = i],
          rs |-> ResolveBegin(WithGlobalCache(c.entries[i].entry, c.dac))]

\* the loop of configure goes on: the file system just resolved is stored,
\* then the next entry is taken or, after the last one, line 126 installs
\* the mounts
ConfigureStep ==
    /\ cfg.op = "configure" /\ cfg.pc = "loop" /\ rs.pc \in {"idle", "resolved"}
    /\ LET c == IF rs.pc = "resolved" THEN [cfg EXCEPT !.resolved = Append(@, rs.fs)] ELSE cfg
       IN  IF c.i < Len(c.entries)
           THEN /\ cfg' = EnterEntry(c, c.i + 1).cfg
                /\ rs' = EnterEntry(c, c.i + 1).rs
                /\ events' = <<>>
                /\ UNCHANGED mounts
           ELSE LET r == mountObject(mounts, c.entries, c.resolved)
                IN  /\ mounts' = r.table
                    /\ cfg' = [c EXCEPT !.pc = "done",
                                        !.err = IF r.err = "OK" THEN "none" ELSE r.err,
                                        !.failedAt = IF r.err = "OK" THEN "none" ELSE "install"]
                    /\ UNCHANGED <<rs, events>>
    /\ UNCHANGED <<call, roVars, asVars, ovVars, stVars>>
    /\ UNCHANGED <<credentials, fsys, cfCalls>>

\* the rejection of resolveMountConfig with the resolved mounts installed
Mutant_CallerRejected ==
    /\ cfg.op \in {"configure", "configureSingle"} /\ cfg.pc = "loop" /\ rs.pc = "rejected"
    /\ cfg' = [cfg EXCEPT !.pc = "done", !.err = rs.err, !.failedAt = "resolve"]
    /\ mounts' = [mp \in MountPoints |->
                    IF \E j \in 1..Len(cfg.resolved) : cfg.entries[j].point = mp
                    THEN cfg.resolved[CHOOSE j \in 1..Len(cfg.resolved) :
                                            cfg.entries[j].point = mp]
                    ELSE mounts[mp]]
    /\ UNCHANGED <<call, roVars, asVars, ovVars, stVars>>
    /\ UNCHANGED <<credentials, fsys, rs, events, cfCalls>>

\* the awaited resolveMountConfig rejects: configure (line 123) and
\* configureSingle (line 95) reject with its error
CallerRejected ==
    /\ cfg.op \in {"configure", "configureSingle"} /\ cfg.pc = "loop" /\ rs.pc = "rejected"
    /\ cfg' = [cfg EXCEPT !.pc = "done", !.err = rs.err, !.failedAt = "resolve"]
    /\ UNCHANGED <<call, roVars, asVars, ovVars, stVars>>
    /\ UNCHANGED <<mounts, credentials, fsys, rs, events, cfCalls>>

\* the configurations handed to configureSingle
SingleSamples ==
    {EntryFs(1), EntryBackend("InMemory"), EntryConfig("Strict", "unset", <<>>)}
        \cup {EntryConfig(b, dac, <<>>) :
                b \in {"InMemory", "Port", "Gone"}, dac \in {"unset", "true"}}

\* configureSingle with '/' unmounted before the configuration is resolved
Mutant_CallConfigureSingle ==
    /\ cfg.op = "none" /\ cfCalls < MaxCfCalls
    /\ \E entry \in SingleSamples :
        LET c == [NoCfg EXCEPT !.op = "configureSingle", !.mounts0 = mounts, !.i = 1,
                               !.entries = <<[point |-> "/", entry |-> entry]>>]
        IN  IF ~isBackendConfig(entry)
            THEN /\ cfg' = [c EXCEPT !.pc = "done", !.err = "TypeError", !.failedAt = "point"]
                 /\ rs' = NoRs
                 /\ UNCHANGED mounts
            ELSE /\ cfg' = [c EXCEPT !.pc = "loop"]
                 /\ rs' = ResolveBegin(entry)
                 /\ mounts' = umount(mounts, "/").table
    /\ events' = <<>>
    /\ cfCalls' = cfCalls + 1
    /\ UNCHANGED <<call, roVars, asVars, ovVars, stVars>>
    /\ UNCHANGED <<credentials, fsys>>

\* configureSingle, lines 90-95
CallConfigureSingle ==
    /\ cfg.op = "none" /\ cfCalls < MaxCfCalls
    /\ \E entry \in SingleSamples :
        LET c == [NoCfg EXCEPT !.op = "configureSingle", !.mounts0 = mounts, !.i = 1,
                               !.entries = <<[point |-> "/", entry |-> entry]>>]
        IN  IF ~isBackendConfig(entry)
            THEN /\ cfg' = [c EXCEPT !.pc = "done", !.err = "TypeError", !.failedAt = "point"]
                 /\ rs' = NoRs
            ELSE /\ cfg' = [c EXCEPT !.pc = "loop"]
                 /\ rs' = ResolveBegin(entry)
    /\ events' = <<>>
    /\ cfCalls' = cfCalls + 1
    /\ UNCHANGED <<call, roVars, asVars, ovVars, stVars>>
    /\ UNCHANGED <<mounts, credentials, fsys>>

\* configureSingle, lines 96-97: umount('/'), then mount('/', resolved)
SingleInstall ==
    /\ cfg.op = "configureSingle" /\ cfg.pc = "loop" /\ rs.pc = "resolved"
    /\ LET u == umount(mounts, "/")
           r == IF u.err # "OK" THEN u ELSE mount(u.table, "/", rs.fs)
       IN  /\ mounts' = r.table
           /\ cfg' = [cfg EXCEPT !.pc = "done", !.resolved = <<rs.fs>>,
                                 !.err = IF r.err = "OK" THEN "none" ELSE r.err,
                                 !.failedAt = IF r.err = "OK" THEN "none" ELSE "install"]
    /\ UNCHANGED <<call, roVars, asVars, ovVars, stVars>>
    /\ UNCHANGED <<credentials, fsys, rs, events, cfCalls>>

\* the mount tables at the time of the call: the default one, one with a
\* second mount, and one whose root has been unmounted
InitConfig ==
    /\ call = NoCall
    /\ RoIdle /\ AsIdle /\ OvIdle /\ StIdle
    /\ mounts \in {[mp \in MountPoints |-> IF mp = "/" THEN 1 ELSE 0],
                   [mp \in MountPoints |-> 1],
                   [mp \in MountPoints |-> 0]}
    /\ credentials \in {RootCred, ConfiguredCred(2, 1)}
    /\ fsys = <<DefaultFs>>
    /\ cfg = NoCfg /\ rs = NoRs /\ events = <<>> /\ cfCalls = 0

NextConfig ==
    \/ CallResolveMountConfig
    \/ Configure
    \/ ConfigureStep
    \/ CallConfigureSingle
    \/ SingleInstall
    \/ CallerRejected
    \/ ResolveNested
    \/ ResolveIsAvailable
    \/ ResolveCheckOptions
    \/ ResolveCreate
    \/ ResolveReady
    \/ CfReturn

SpecConfig == InitConfig /\ [][NextConfig]_vars

\* bit k of the word n
Bit(n, k) == (n \div (2 ^ k)) % 2 = 1

\* the bits of the mask of C23 for the credential cred and the record st:
\* 6..8 (S_IRWXU) when the uids agree, 3..5 (S_IRWXG) when the gids agree,
\* 0..2 (S_IRWXO) always
MaskBits(st, cred) ==
    (IF cred.uid = st.uid THEN 6..8 ELSE {}) \cup (IF cred.gid = st.gid THEN 3..5 ELSE {})
        \cup (0..2)

\* C23: hasAccess(requested, cred) is true whenever cred.euid or cred.egid is
\* 0; for every other credential it is true exactly when every bit of
\* requested is a bit of the mode and of the mask (S_IRWXU if the uids agree,
\* S_IRWXG if the gids agree, S_IRWXO), that is (requested & mode & mask)
\* equals requested.
C23_HasAccessFormula ==
    access.asked =>
        IF access.cred.euid = 0 \/ access.cred.egid = 0 THEN access.result = TRUE
        ELSE access.result =
                (\A k \in 0..(ModeBits - 1) :
                    Bit(access.requested, k) =>
                        Bit(theStats.mode, k) /\ k \in MaskBits(theStats, access.cred))

\* a credential that is not root has asked for R_OK and W_OK on a file and
\* has been granted them by the bits of the mode
C23_Witness ==
    /\ access.asked /\ access.result = TRUE
    /\ access.cred.euid # 0 /\ access.cred.egid # 0
    /\ access.requested = 6 /\ theStats.mode = BitOr(S_IFREG, 7)

\* C24: standard owner/group/other semantics: a credential that is not root
\* and whose uid is the file's uid is granted R_OK (4), W_OK (2) or X_OK (1)
\* when the owner bit of that kind is set in the mode, and a credential whose
\* gid is the file's gid is granted it when the group bit is set.
C24_OwnerAndGroupBitsGrant ==
    (/\ access.asked
     /\ access.cred.euid # 0 /\ access.cred.egid # 0
     /\ access.requested \in {4, 2, 1}) =>
        /\ (access.cred.uid = theStats.uid /\ BitAnd(theStats.mode, access.requested * 64) # 0)
              => access.result = TRUE
        /\ (access.cred.gid = theStats.gid /\ BitAnd(theStats.mode, access.requested * 8) # 0)
              => access.result = TRUE


\* the configuration the running call resolves
Resolving == cfg.entries[cfg.i].entry

\* what resolveMountConfig invokes on a backend that is available and whose
\* options are valid, in order
FullOrder == <<"isAvailable", "checkOptions", "create", "ready", "readyDone">>

\* C25: resolveMountConfig on a backend configuration: when isAvailable() is
\* false it rejects with EPERM and neither create() nor ready() is invoked;
\* otherwise the validation of the options, create() and ready() happen in
\* that order, and the promise resolves only after ready() of the created
\* file system has completed; a FileSystem passed as configuration is
\* returned as it is.
C25_ResolveOrder ==
    /\ [](cfg.op = "resolveMountConfig" =>
            /\ IsPrefix(events, FullOrder)
            /\ (rs.pc \in {"checkOptions", "create", "ready", "resolved"}
                    /\ Resolving.kind # "fs") => Backend_isAvailable(rs.backend)
            /\ (rs.backend # "none" /\ ~Backend_isAvailable(rs.backend)
                    /\ rs.pc \notin {"options", "isAvailable"}) =>
                  /\ rs.pc = "rejected" /\ rs.err \in {"EPERM", "EINVAL"}
                  /\ rs.err = "EPERM" <=> events = <<"isAvailable">>
                  /\ rs.err = "EINVAL" <=> events = <<>>
                  /\ rs.fs = 0
            /\ (rs.pc = "resolved" /\ Resolving.kind # "fs") =>
                  /\ events = FullOrder
                  /\ fsys[rs.fs].ready /\ fsys[rs.fs].backend = rs.backend)
    /\ [][(cfg.op = "none" /\ cfg'.op = "resolveMountConfig"
                /\ cfg'.entries[1].entry.kind = "fs") =>
            /\ rs'.pc = "resolved" /\ rs'.fs = cfg'.entries[1].entry.fs
            /\ fsys' = fsys /\ events' = <<>>]_vars

\* a backend has been created and its ready() has completed before the
\* promise resolved
C25_Witness ==
    /\ cfg.op = "resolveMountConfig" /\ rs.pc = "resolved"
    /\ Resolving.kind = "config" /\ events = FullOrder

\* the number of levels of mount configurations nested in the options
RECURSIVE NestingDepth(_)
NestingDepth(opts) ==
    IF opts = <<>> THEN 0
    ELSE 1 + (CHOOSE d \in {NestingDepth(opts[j]) : j \in 1..Len(opts)} :
                \A j \in 1..Len(opts) : NestingDepth(opts[j]) <= d)

\* resolveMountConfig has rejected the nesting of the configuration
TooDeep == rs.pc = "rejected" /\ rs.err = "EINVAL" /\ events = <<>>

\* C26: the limit counts the depth of nesting alone: a configuration whose
\* mount configurations are nested at most 10 levels deep is not rejected as
\* too deep, however many options of one level are mount configurations; a
\* configuration nested deeper and deeper is rejected with EINVAL.
C26_DepthLimitCountsNestingOnly ==
    (cfg.op = "resolveMountConfig" /\ Resolving.kind = "config"
        /\ Resolving.backend = "InMemory" /\ rs.pc # "options") =>
        /\ NestingDepth(Resolving.options) <= DepthLimit => ~TooDeep
        /\ NestingDepth(Resolving.options) > DepthLimit + 1 => TooDeep

\* the part of C26 about nesting alone: configurations with one option that
\* is a mount configuration at every level
ChainsAreLimitedByNesting ==
    (/\ cfg.op = "resolveMountConfig" /\ Resolving.kind = "config"
     /\ Resolving.backend = "InMemory" /\ rs.pc # "options"
     /\ \E levels \in 0..MaxNesting : Resolving.options = Shape(0, levels, 1, 0, TRUE)) =>
        TooDeep <=> (NestingDepth(Resolving.options) > DepthLimit + 1)


\* C27: configure sets the credential {uid, gid, suid = uid, sgid = gid,
\* euid = uid, egid = gid}, uid and gid being 0 when the configuration has
\* none, before any mount is resolved or installed; a configuration without
\* mounts leaves the mount table as it was.
C27_CredentialFirst ==
    /\ [](cfg.op = "configure" =>
            /\ credentials = [uid |-> IF cfg.uid = Unset THEN 0 ELSE cfg.uid,
                              gid |-> IF cfg.gid = Unset THEN 0 ELSE cfg.gid,
                              suid |-> IF cfg.uid = Unset THEN 0 ELSE cfg.uid,
                              sgid |-> IF cfg.gid = Unset THEN 0 ELSE cfg.gid,
                              euid |-> IF cfg.uid = Unset THEN 0 ELSE cfg.uid,
                              egid |-> IF cfg.gid = Unset THEN 0 ELSE cfg.gid]
            /\ cfg.entries = <<>> =>
                  /\ cfg.pc = "done" /\ cfg.err = "none"
                  /\ mounts = cfg.mounts0)
    /\ [][(cfg.op = "none" /\ cfg'.op = "configure") =>
            /\ rs' = NoRs /\ events' = <<>>
            /\ mounts' = mounts /\ fsys' = fsys]_vars

\* configure has changed the credential and goes on to resolve its mounts
C27_Witness ==
    /\ cfg.op = "configure" /\ cfg.pc = "loop" /\ cfg.i = 0
    /\ cfg.uid = 1 /\ cfg.gid = Unset
    /\ credentials = [uid |-> 1, gid |-> 0, suid |-> 1, sgid |-> 0, euid |-> 1, egid |-> 0]

\* C28: when configure fails because a key of the mounts does not start with
\* '/' (EINVAL) or because the resolution of a mount rejects, it rejects with
\* that error and none of the mounts of the configuration is installed, those
\* resolved before the failing one included.
C28_FailedConfigureInstallsNothing ==
    (cfg.op = "configure" /\ cfg.pc = "done" /\ cfg.failedAt \in {"point", "resolve"}) =>
        /\ mounts = cfg.mounts0
        /\ cfg.failedAt = "point" => cfg.err = "EINVAL"
        /\ cfg.failedAt = "resolve" => rs.pc = "rejected" /\ cfg.err = rs.err

\* the second mount is a Port whose ready() has failed with EIO after the
\* first mount had been resolved
C28_Witness ==
    /\ cfg.op = "configure" /\ cfg.pc = "done" /\ cfg.err = "EIO"
    /\ cfg.i = 2 /\ Len(cfg.resolved) = 1 /\ cfg.resolved[1] > 1
    /\ fsys[cfg.resolved[1]].ready
    /\ cfg.entries[1].point = "/tmp" /\ cfg.mounts0["/tmp"] = 0

\* C29: configureSingle replaces the root mount: after its success '/' is
\* bound to the file system just resolved, which was created and ready before
\* the old root was unmounted; when the resolution fails the error is passed
\* on and the root mount is the one before the call.
C29_SingleReplacesRoot ==
    /\ [](cfg.op = "configureSingle" =>
            /\ (cfg.pc = "done" /\ cfg.err = "none") =>
                  /\ mounts["/"] = rs.fs /\ rs.pc = "resolved" /\ fsys[rs.fs].ready
                  /\ \A mp \in MountPoints \ {"/"} : mounts[mp] = cfg.mounts0[mp]
            /\ (cfg.pc = "loop" \/ cfg.failedAt = "resolve") => mounts = cfg.mounts0
            /\ cfg.failedAt = "resolve" => rs.pc = "rejected" /\ cfg.err = rs.err)
    /\ [][(cfg.op = "configureSingle" /\ mounts' # mounts) =>
            rs.pc = "resolved" /\ fsys[rs.fs].ready]_vars

\* the root has been replaced by a file system configureSingle has created
C29_Witness ==
    /\ cfg.op = "configureSingle" /\ cfg.pc = "done" /\ cfg.err = "none"
    /\ cfg.mounts0["/"] = 1 /\ mounts["/"] = 2

\* the root mount has outlived a failed configureSingle
C29_WitnessFailed ==
    /\ cfg.op = "configureSingle" /\ cfg.pc = "done" /\ cfg.err = "EIO"
    /\ mounts["/"] = 1

\* C30: under configure with disableAsyncCache = true every file system made
\* from an entry that does not set disableAsyncCache itself, be it a bare
\* Backend or an object with a backend, has _disableSync = true; the value an
\* entry sets itself wins over the global one.
C30_GlobalCacheSwitchReachesEveryEntry ==
    (cfg.op = "configure" /\ cfg.pc = "loop" /\ rs.fs # 0
        /\ Resolving.kind \in {"backend", "config"}) =>
        fsys[rs.fs].disableSync =
            (IF Resolving.dac # "unset" THEN Resolving.dac = "true" ELSE cfg.dac = "true")

\* the part of C30 about the entries that are objects with a backend
CacheSwitchReachesConfigObjects ==
    (cfg.op = "configure" /\ cfg.pc = "loop" /\ rs.fs # 0 /\ Resolving.kind = "config") =>
        fsys[rs.fs].disableSync =
            (IF Resolving.dac # "unset" THEN Resolving.dac = "true" ELSE cfg.dac = "true")

(***************************************************************************)
(* The bridge: the queue drains.                                           *)
(***************************************************************************)
\* C31: after any finite sequence of sync mutations, every call made on the
\* asynchronous backend ending in success or in an error, the queue of pending
\* operations is empty from some time on, and every queueDone() resolves in the
\* end, with no further sync mutation needed for it.
C31_QueueDrainsAndQueueDoneResolves ==
    /\ <>[](~AsyncFS_queueRunning(Bridge))
    /\ [](call.op.name = "queueDone" =>
              <>(call.op.name = "queueDone" /\ call.err = "OK"))

\* two sync mutations were made, the calls on the backend have ended, one of them
\* in an error, the queue is empty and queueDone() has resolved
C31_Witness ==
    /\ Len(enqueued) >= 2
    /\ InFlight = {}
    /\ Len(started) = Len(enqueued)
    /\ \E i \in DOMAIN outcome : outcome[i] # "OK"
    /\ ~AsyncFS_queueRunning(Bridge)
    /\ call.op.name = "queueDone" /\ call.err = "OK"

\* every call made on the asynchronous backend has ended from some time on
EveryStartedCallEnds == <>[](InFlight = {})

(***************************************************************************)
(* The bridge: initialization.                                             *)
(***************************************************************************)
\* a step that is a call of ready()
ReadyStep == call'.op.name = "ready"
\* ready() calls made one after the other: _isInitialized becomes true by a
\* crossCopy that completed successfully and by nothing else, and never goes
\* back to false; ready() runs crossCopy only when the bridge is not initialized
\* and the cache is not disabled, and a ready() that does not run it leaves the
\* mirror as it is; a ready() whose crossCopy fails rejects with crossCopy's
\* error and leaves the bridge uninitialized; ready() gives nothing to the queue.
ReadyInTurnInitializesByCrossCopyOnly ==
    [][ /\ isInitialized' # isInitialized =>
              /\ ReadyStep /\ call'.val.flag /\ call'.err = "OK"
              /\ isInitialized'
        /\ ReadyStep =>
              /\ call'.val.flag => ~isInitialized /\ ~disableSync
              /\ ~call'.val.flag => mirror' = mirror /\ isInitialized' = isInitialized
              /\ call'.val.flag =>
                    \E failAt \in 0..Len(Walk(backend, Root)) :
                        LET r == AsyncFS_crossCopy(backend, mirror, failAt)
                        IN  /\ call'.err = r.err
                            /\ mirror' = r.fs
                            /\ isInitialized' = (r.err = "OK")
              /\ enqueued' = enqueued /\ queue_' = queue_
              /\ started' = started /\ backend' = backend
      ]_vars

\* ready() is called again on an initialized bridge whose mirror sync mutations
\* have changed since: it returns without running crossCopy
ReadyAgainLeavesTheMirror ==
    /\ call.op.name = "ready" /\ call.err = "OK" /\ ~call.val.flag
    /\ isInitialized /\ ~disableSync
    /\ Len(enqueued) > 0
    /\ mirror # EmptyFs(MirrorRootPerm)

\* a ready() whose crossCopy failed half way: the bridge is not initialized
ReadyFailedHalfWay ==
    /\ call.op.name = "ready" /\ call.err # "OK" /\ call.val.flag
    /\ ~isInitialized
    /\ mirror # EmptyFs(MirrorRootPerm)

\* the ready() calls whose crossCopy has completed successfully
CopiedAll == {k \in DOMAIN copies : copies[k].ran /\ copies[k].state = "resolved"}

\* C32: _isInitialized is true exactly when a crossCopy has completed
\* successfully (ready() runs crossCopy only on a bridge that is not initialized
\* and whose cache is not disabled, a ready() whose crossCopy fails rejects and
\* leaves the bridge uninitialized, and ready() enqueues nothing).
C32_InitializedIffCrossCopyCompleted ==
    /\ isInitialized <=> CopiedAll # {}
    /\ enqueued = <<>> /\ queue_ = <<>>

(***************************************************************************)
(* Overlay: rename, the readable layer, visibility, the deletion log.      *)
(***************************************************************************)
\* renameSync(old, new), old # new, of this step has returned without error
\* on an initialized overlay where old was visible
RenamedVisible ==
    /\ Idle /\ call'.op.name = "renameSync" /\ call'.err = "OK"
    /\ ovInit /\ deleteLogError = "none"
    /\ call'.op.p # call'.op.q
    /\ Visible(call'.op.p)

\* after this step stat(new) succeeds and stat(old) fails with ENOENT
NewIsThereOldIsGone ==
    /\ UnlockedOverlayFS_statSync(Overlay', call'.op.q).err = "OK"
    /\ UnlockedOverlayFS_statSync(Overlay', call'.op.p).err = "ENOENT"

\* C33: when rename(old, new) returns without error for a path old that is
\* visible through the overlay, stat(new) succeeds afterwards and stat(old)
\* fails with ENOENT, be old on the writable layer or on the readable one only.
C33_RenameMovesVisiblePath ==
    [][RenamedVisible => NewIsThereOldIsGone]_vars

\* the part of C33 about a path that the writable layer alone holds and that
\* the writable layer has renamed
RenameMovesPathOfWritableAlone ==
    [][(RenamedVisible /\ ~FsExists(ovR, call'.op.p) /\ InnerError(call'.op) = "OK") =>
           NewIsThereOldIsGone]_vars

\* C34: the readable layer is never mutated: no call of the overlay (sync of a
\* handle, unlink, rmdir, rename, mkdir, createFile, link), no restored log and
\* no update of the deletion log changes R, so that R is in every reachable
\* state what it was at construction.
C34_ReadableLayerIsNeverMutated == [][ovR' = ovR]_vars

\* the handle of a file that R holds has been synced: the new bytes are on W,
\* and R still holds its own
C34_Witness ==
    /\ call.op.name = "sync" /\ call.err = "OK"
    /\ FsExists(ovR, call.op.p) /\ isFile(ovR[call.op.p].mode)
    /\ FsExists(ovW, call.op.p) /\ ovW[call.op.p].data = call.op.data
    /\ ovR[call.op.p].data # call.op.data

\* the deleted names that the writable layer does not hold
HiddenNames == {p \in OvPaths : p \in deletedFiles /\ ~FsExists(ovW, p)}

\* C35: for every path p that is a deleted name and absent from the writable
\* layer, stat(p) fails with ENOENT, exists(p) is false and openFile(p) fails
\* (openFile succeeds only where exists is true).
C35_DeletedPathIsHiddenFromEveryRead ==
    (ovInit /\ deleteLogError = "none") =>
        \A p \in HiddenNames :
            /\ UnlockedOverlayFS_statSync(Overlay, p).err = "ENOENT"
            /\ ~UnlockedOverlayFS_existsSync(Overlay, p).flag
            /\ UnlockedOverlayFS_openFileSync(Overlay, p).err # "OK"

\* the part of C35 about stat and exists
DeletedPathIsHiddenFromStat ==
    (ovInit /\ deleteLogError = "none") =>
        \A p \in HiddenNames :
            /\ UnlockedOverlayFS_statSync(Overlay, p).err = "ENOENT"
            /\ UnlockedOverlayFS_stat(Overlay, p).err = "ENOENT"
            /\ ~UnlockedOverlayFS_existsSync(Overlay, p).flag

\* the deleted names are what parsing the log in memory gives
ParsedLogIsDeletedNames == deletedFiles = UnlockedOverlayFS_reparseDeletionLog(deleteLog)

\* unlink and rmdir only add names, and on an initialized overlay a name goes
\* only by restoreDeletionLog
NamesGoByRestoreOnly ==
    /\ call'.op.name \in {"unlink", "unlinkSync", "rmdirSync"} =>
           deletedFiles \subseteq deletedFiles'
    /\ (ovInit /\ ~(deletedFiles \subseteq deletedFiles')) =>
           call'.op.name = "restoreDeletionLog"

\* C36: in every reachable state of an initialized overlay the deleted names are
\* the set that parsing the deletion log in memory gives (of each LF-separated
\* line that begins with 'd', the rest of the line; other lines are ignored);
\* unlink and rmdir only ever add names, and a name is removed only by
\* restoreDeletionLog.
C36_DeletedNamesAreTheParsedLog ==
    /\ [](ovInit => ParsedLogIsDeletedNames)
    /\ [][NamesGoByRestoreOnly]_vars

\* the log in memory is empty or ends with a line feed
EndsWithLineFeed(log) == log = <<>> \/ log[Len(log)] = "\n"

\* the parts of C36 that hold: names go by restoreDeletionLog only, and a step
\* of an initialized overlay whose log ends with a line feed keeps the deleted
\* names equal to the parsed log, and keeps the line feed unless it restores
ParsedLogIsKeptAfterLineFeed ==
    [][/\ NamesGoByRestoreOnly
       /\ (ovInit /\ EndsWithLineFeed(deleteLog) /\ ParsedLogIsDeletedNames) =>
              /\ deletedFiles' = UnlockedOverlayFS_reparseDeletionLog(deleteLog')
              /\ call'.op.name # "restoreDeletionLog" => EndsWithLineFeed(deleteLog')]_vars

\* C37: FileSystem.exists / existsSync returns true when stat succeeds, false
\* exactly when stat fails with ENOENT, true when stat fails with any other
\* code (EPERM, EIO), and never throws.
C37_ExistsIsFalseOnlyOnENOENT ==
    [][(Idle /\ call'.op.name = "existsSync") =>
          /\ call'.err = "OK"
          /\ call'.val.flag = (UnlockedOverlayFS_statSync(Overlay, call'.op.p).err # "ENOENT")
      ]_vars

\* existsSync has answered true for a path that stat fails on with EPERM, the
\* overlay being not initialized
C37_Witness ==
    /\ call.op.name = "existsSync" /\ call.err = "OK" /\ call.val.flag
    /\ ~ovInit
    /\ UnlockedOverlayFS_statSync(Overlay, call.op.p).err = "EPERM"

=============================================================================
